---- MODULE Spec2Model ----
(***************************************************************************)
(* A model of the api-gateway-sample request pipeline                      *)
(* (ProxyUseCase.ProxyRequest), the Redis-backed token-bucket rate         *)
(* limiter, the JWT auth service, the service registries and the response  *)
(* cache, translated from the Go sources.                                  *)
(*                                                                         *)
(* Each pipeline invocation is a process that runs ProxyRequest one        *)
(* collaborator call at a time; the Redis keyspace is shared by all        *)
(* invocations, by the rate limiter and by the cache (main.go builds both  *)
(* on the same redis.Client).                                              *)
(***************************************************************************)
EXTENDS Integers, Sequences, FiniteSets, TLC

VARIABLES
    repoImpl,   \* which ServiceRepository ProxyUseCase was built with
    pc,         \* per invocation: the stage ProxyRequest is about to run
    req,        \* per invocation: the *entity.Request being processed
    sel,        \* per invocation: the resolved service and endpoint
    resp,       \* per invocation: the response travelling down the pipeline
    calls,      \* per invocation: the collaborator calls made so far
    result,     \* per invocation: what ProxyRequest returned
    redis,      \* the shared Redis keyspace
    lim,        \* the last direct call on the rate limiter and its result
    registry,   \* ServiceRepositoryMock.services: service ID -> stored service
    regOut,     \* the last call on the in-memory registry and its result
    cacheImpl,  \* which CacheRepository the CacheServiceAdapter wraps
    mockData,   \* MockCache.data: key -> stored value
    latest,     \* per cache key: the value last Set and not removed since
    cacheOut,   \* the last call on the cache adapter and its result
    db,         \* the services and endpoints tables of ServiceRepositoryImpl
    dbOut,      \* the last call on the database registry and its result
    authOut,    \* the last call on the auth service and its result
    jwt,        \* the clock, the token issued last and the last token call
    srv,        \* the main goroutine of the process, its signal channels and listener
    conn,       \* per connection: the request being served and what was written
    unit,       \* the last call on a function of the domain entities and its result
    uc          \* per caller: its position in a ServiceUseCase call and what it holds

\* The variables of the in-memory registry, of the cache adapter, of the
\* database registry, and of the harnesses around single components.
registryVars == <<registry, regOut>>
cacheVars == <<cacheImpl, mockData, latest, cacheOut>>
dbVars == <<db, dbOut>>
extraVars == <<jwt, srv, conn, unit, uc>>
adminVars == <<registryVars, cacheVars, dbVars, authOut, extraVars>>

\* The variables of the pipeline, the keyspace and the rate limiter.
gatewayVars == <<repoImpl, pc, req, sel, resp, calls, result, redis, lim>>

\* What the harnesses added around single components leave alone.
baseVars == <<gatewayVars, registryVars, cacheVars, dbVars, authOut>>

vars == <<gatewayVars, adminVars>>

\* The concurrent ProxyRequest invocations (goroutines of the HTTP server).
Procs == {"p1", "p2"}

(***************************************************************************)
(* Data: headers, requests, services                                       *)
(***************************************************************************)

\* A header value is ("Bearer " if bearer) followed by rest; rest itself
\* never starts with "Bearer ".
Hdr(b, r) == [present |-> TRUE, bearer |-> b, rest |-> r]
NoHdr == [present |-> FALSE, bearer |-> FALSE, rest |-> ""]

HeaderNames == {"Authorization", "Connection", "X-Service-ID", "X-Service-Name"}

\* The Authorization headers a client may send.
AuthHeaders ==
    { NoHdr, Hdr(TRUE, ""), Hdr(TRUE, "tokAdmin"), Hdr(FALSE, "tokUser"),
      Hdr(TRUE, "tokBad") }

HeadersWith(auth) ==
    [h \in HeaderNames |-> IF h = "Authorization" THEN auth ELSE NoHdr]

NoReq ==
    [method |-> "", path |-> "", headers |-> HeadersWith(NoHdr),
     clientIP |-> "", authenticated |-> FALSE, userID |-> ""]

Endpoint(p, ms, rl, auth, ttl) ==
    [path |-> p, methods |-> ms, rateLimit |-> rl, authRequired |-> auth,
     cacheTTL |-> ttl]

\* The registered services (the registry's content while requests flow).
Services ==
    << [id |-> "s1", name |-> "users", baseURL |-> "http://users", isActive |-> TRUE,
        endpoints |-> << Endpoint("/pub", <<"GET">>, 2, FALSE, 0),
                         Endpoint("/sec", <<"GET", "POST">>, 0, TRUE, 0) >>],
       [id |-> "s2", name |-> "reports", baseURL |-> "http://reports",
        isActive |-> TRUE,
        endpoints |-> << Endpoint("/rep", <<"*">>, 1, FALSE, 30),
                         Endpoint("/dup", <<"POST">>, 0, TRUE, 0),
                         Endpoint("/dup", <<"GET">>, 0, FALSE, 0) >>],
       [id |-> "s3", name |-> "legacy", baseURL |-> "http://legacy",
        isActive |-> FALSE,
        endpoints |-> << Endpoint("/old", <<"GET">>, 0, FALSE, 0) >>] >>

NoEndpoint == Endpoint("", <<>>, 0, FALSE, 0)
NoService ==
    [id |-> "", name |-> "", baseURL |-> "", isActive |-> FALSE, endpoints |-> <<>>]
NoSel == [service |-> NoService, endpoint |-> NoEndpoint, found |-> FALSE]

NoResp ==
    [status |-> 0, body |-> "", cached |-> FALSE, headers |-> HeadersWith(NoHdr),
     contentLength |-> 0]
\* A Go error: its message and the sentinel errors.Is finds in its chain.
NoErr == [msg |-> "", cause |-> ""]
Err(m, c) == [msg |-> m, cause |-> c]

NoResult == [err |-> NoErr, hasResp |-> FALSE, resp |-> NoResp]

Range(s) == {s[i] : i \in DOMAIN s}

(***************************************************************************)
(* Service registries                                                      *)
(***************************************************************************)

\* ServiceRepositoryMock.GetByEndpoint over the stored services: every
\* service with an endpoint of that path whose methods hold the method or
\* "*"; ErrNotFound when there is none.
StoredMatches(stored, path, method) ==
    { s \in stored :
        \E e \in Range(s.endpoints) :
            /\ e.path = path
            /\ \E m \in Range(e.methods) : m = method \/ m = "*" }

MockGetByEndpointOf(stored, path, method) ==
    LET found == StoredMatches(stored, path, method)
    IN  IF found = {} THEN [err |-> Err("not found", "ErrNotFound"), services |-> {}]
        ELSE [err |-> NoErr, services |-> found]

\* The in-memory registry holding the registered services.
MockMatches(path, method) == StoredMatches(Range(Services), path, method)

MockGetByEndpoint(path, method) ==
    MockGetByEndpointOf(Range(Services), path, method)

\* strings.Contains restricted to the method names of the model: none of
\* GET, POST, * is a proper substring of another; "" is in every string.
Contains(s, sub) == sub = "" \/ s = sub

\* mapEndpointToModel: the row kept for an endpoint. Methods is the "%v"
\* rendering of the slice ("[GET POST]"), kept here as its words; CacheTTL
\* is not copied into the row.
DbEndpointRow(e) ==
    [path |-> e.path, methods |-> e.methods, rateLimit |-> e.rateLimit,
     authRequired |-> e.authRequired, cacheTTL |-> 0]

\* loadEndpoints: the endpoints rebuilt from the rows, with an empty
\* Methods slice.
DbLoadEndpoints(s) ==
    [i \in DOMAIN s.endpoints |->
        LET row == DbEndpointRow(s.endpoints[i])
        IN  Endpoint(row.path, <<>>, row.rateLimit, row.authRequired, row.cacheTTL)]

\* The SQL of ServiceRepositoryImpl.GetByEndpoint:
\* endpoints.path = ? AND endpoints.methods LIKE '%' + method + '%'.
DbMatches(path, method) ==
    { s \in Range(Services) :
        \E e \in Range(s.endpoints) :
            /\ DbEndpointRow(e).path = path
            /\ \E w \in Range(DbEndpointRow(e).methods) : Contains(w, method) }

\* ServiceRepositoryImpl.GetByEndpoint: a query failure is an error; an
\* empty result set is returned as an empty slice with a nil error.
DbGetByEndpoint(path, method, queryOk) ==
    IF ~queryOk
    THEN [err |-> Err("failed to get services", "db"), services |-> {}]
    ELSE [err |-> NoErr,
          services |-> { [s EXCEPT !.endpoints = DbLoadEndpoints(s)] :
                           s \in DbMatches(path, method) }]

GetByEndpoint(impl, path, method, queryOk) ==
    IF impl = "mock" THEN MockGetByEndpoint(path, method)
    ELSE DbGetByEndpoint(path, method, queryOk)

\* ProxyRequest lines 63-70: the first endpoint of the service whose path
\* is the request's path; 0 when there is none.
MatchEndpointIndex(service, path) ==
    LET idx == { i \in DOMAIN service.endpoints : service.endpoints[i].path = path }
    IN  IF idx = {} THEN 0 ELSE CHOOSE i \in idx : \A j \in idx : i <= j

(***************************************************************************)
(* JWT auth service                                                        *)
(***************************************************************************)

\* getAuthToken: the first Authorization value with a leading "Bearer "
\* removed; "" without the header.
getAuthToken(headers) ==
    LET h == headers["Authorization"]
    IN  IF h.present THEN h.rest ELSE ""

\* ValidateToken: jwt.Parse with the gateway's key, as a table over the
\* token strings of the model. roles holds the strings of the "roles"
\* claim, each kept as the tuple of its parts; hasRoles tells whether the
\* claim is there as a list.
ValidateToken(tok) ==
    CASE tok = "tokAdmin" ->
            [valid |-> TRUE, sub |-> "alice", hasRoles |-> TRUE,
             roles |-> {<<"admin">>}]
      [] tok = "tokUser" ->
            [valid |-> TRUE, sub |-> "bob", hasRoles |-> TRUE,
             roles |-> {<<"guest">>}]
      [] tok = "tokScoped" ->
            [valid |-> TRUE, sub |-> "carol", hasRoles |-> TRUE,
             roles |-> {<<"users", ":", "/sec">>}]
      [] tok = "tokNear" ->
            [valid |-> TRUE, sub |-> "dave", hasRoles |-> TRUE,
             roles |-> {<<"users", ":", "/sec", "/sub">>, <<"users", ":", "*">>,
                        <<"users">>, <<"reports", ":", "/sec">>, <<"*">>}]
      [] tok = "tokNoRoles" ->
            [valid |-> TRUE, sub |-> "erin", hasRoles |-> FALSE, roles |-> {}]
      [] OTHER ->
            [valid |-> FALSE, sub |-> "", hasRoles |-> FALSE, roles |-> {}]

\* JWTAuth.Authenticate
\* An authenticator that lets a request without a token through.
Authenticate_Anon(request) ==
    LET tok == getAuthToken(request.headers)
        claims == ValidateToken(tok)
    IN  IF tok = "" THEN [authenticated |-> TRUE, userID |-> "", err |-> NoErr]
        ELSE IF ~claims.valid
        THEN [authenticated |-> FALSE, userID |-> "", err |-> Err("invalid token", "jwt")]
        ELSE [authenticated |-> TRUE, userID |-> claims.sub, err |-> NoErr]

\* JWTAuth.Authenticate
Authenticate(request) ==
    LET tok == getAuthToken(request.headers)
        claims == ValidateToken(tok)
    IN  IF tok = "" THEN [authenticated |-> FALSE, userID |-> "", err |-> NoErr]
        ELSE IF ~claims.valid
        THEN [authenticated |-> FALSE, userID |-> "", err |-> Err("invalid token", "jwt")]
        ELSE [authenticated |-> TRUE, userID |-> claims.sub, err |-> NoErr]

\* The role that grants access to one endpoint, service.Name + ":" +
\* endpoint.Path; a role string is kept as the tuple of its parts.
EndpointRole(service, endpoint) == <<service.name, ":", endpoint.path>>

\* An authorizer that asks for a token on a public endpoint as well.
Authorize_ChecksPublic(request, service, endpoint) ==
    LET tok == getAuthToken(request.headers)
        claims == ValidateToken(tok)
    IN  IF tok = "" THEN Err("authorization required", "")
        ELSE IF ~claims.valid THEN Err("invalid token", "jwt")
        ELSE IF ~claims.hasRoles THEN Err("invalid roles in token", "")
        ELSE IF \E r \in claims.roles :
                    r = <<"admin">> \/ r = EndpointRole(service, endpoint)
        THEN NoErr
        ELSE Err("unauthorized: insufficient permissions", "")

\* JWTAuth.Authorize
Authorize(request, service, endpoint) ==
    LET tok == getAuthToken(request.headers)
        claims == ValidateToken(tok)
    IN  IF ~endpoint.authRequired THEN NoErr
        ELSE IF tok = "" THEN Err("authorization required", "")
        ELSE IF ~claims.valid THEN Err("invalid token", "jwt")
        ELSE IF ~claims.hasRoles THEN Err("invalid roles in token", "")
        ELSE IF \E r \in claims.roles :
                    r = <<"admin">> \/ r = EndpointRole(service, endpoint)
        THEN NoErr
        ELSE Err("unauthorized: insufficient permissions", "")

\* The last call on the auth service: the Authorization header of the
\* request, the service and endpoint it was made for, and what it returned.
NoAuthOut ==
    [op |-> "", auth |-> NoHdr, service |-> NoService, endpoint |-> NoEndpoint,
     authenticated |-> FALSE, userID |-> "", err |-> NoErr]

\* The credentials the auth service is called with.
Credentials ==
    {NoHdr} \cup
    { Hdr(b, t) : b \in BOOLEAN,
                  t \in {"", "tokAdmin", "tokUser", "tokScoped", "tokNear",
                         "tokNoRoles", "tokBad"} }

AuthRequest(auth) ==
    [method |-> "GET", path |-> "", headers |-> HeadersWith(auth),
     clientIP |-> "ip1", authenticated |-> FALSE, userID |-> ""]

ApiAuthenticate ==
    \E auth \in Credentials :
        LET a == Authenticate(AuthRequest(auth))
        IN  /\ authOut' = [NoAuthOut EXCEPT !.op = "Authenticate", !.auth = auth,
                                            !.authenticated = a.authenticated,
                                            !.userID = a.userID, !.err = a.err]
            /\ UNCHANGED <<registryVars, cacheVars, dbVars, extraVars, gatewayVars>>

ApiAuthorize ==
    \E auth \in Credentials, sv \in Range(Services) :
        \E e \in Range(sv.endpoints) :
            /\ authOut' = [NoAuthOut EXCEPT
                              !.op = "Authorize", !.auth = auth, !.service = sv,
                              !.endpoint = e,
                              !.err = Authorize([AuthRequest(auth) EXCEPT !.path = e.path],
                                                sv, e)]
            /\ UNCHANGED <<registryVars, cacheVars, dbVars, extraVars, gatewayVars>>

(***************************************************************************)
(* Token issue and validation                                              *)
(***************************************************************************)

\* A claim value as JSON carries it: a string or a number.
Str(s) == [t |-> "str", s |-> s, n |-> 0]
Num(n) == [t |-> "num", s |-> "", n |-> n]

\* The configuration NewJWTAuth is given: signing key, issuer and the
\* lifetime of a token in clock ticks.
SecretKey == "gwKey"
Issuer == "gateway"
Expiration == 2

\* The clock stops at MaxClock.
MaxClock == 4

SigningKeys == {SecretKey, "otherKey"}
SigningMethods == {"HS256", "RS256"}
Issuers == {Issuer, "other"}
Subjects == {"alice", "mallory"}

\* A token: the method and key it was signed with and its claims, a
\* function from claim names to values.
NoToken == [alg |-> "", key |-> "", claims |-> <<>>]

\* The custom claims GenerateToken is called with.
CustomClaims ==
    {<<>>} \cup
    { [k \in {"roles"} |-> Str("admin")],
      [k \in {"sub"} |-> Str("mallory")],
      [k \in {"sub"} |-> Num(7)],
      [k \in {"iss"} |-> Str("other")],
      [k \in {"exp"} |-> Num(0)],
      [k \in {"exp"} |-> Num(MaxClock + Expiration + 1)] }

\* JWTAuth.GenerateToken: the standard claims, then every custom claim
\* written over them, signed with the gateway's key.
GenerateToken(userID, claims, now) ==
    LET own == [k \in {"iss", "sub", "iat", "exp"} |->
                   CASE k = "iss" -> Str(Issuer)
                     [] k = "sub" -> Str(userID)
                     [] k = "iat" -> Num(now)
                     [] k = "exp" -> Num(now + Expiration)]
    IN  [alg |-> "HS256", key |-> SecretKey,
         claims |-> [k \in DOMAIN own \cup DOMAIN claims |->
                        IF k \in DOMAIN claims THEN claims[k] ELSE own[k]]]

\* JWTAuth.ValidateToken at clock time now: jwt.Parse with a key function
\* that accepts HMAC methods and hands out the gateway's key; the parser
\* verifies the signature and, when the claim is present, the expiry.
ValidateTokenAt(token, now) ==
    LET c == token.claims
    IN  IF token.alg # "HS256" THEN [err |-> Err("unexpected signing method", "jwt"), claims |-> <<>>]
        ELSE IF token.key # SecretKey THEN [err |-> Err("signature is invalid", "jwt"), claims |-> <<>>]
        ELSE IF "exp" \in DOMAIN c /\ c["exp"].t # "num"
        THEN [err |-> Err("invalid claims", "jwt"), claims |-> <<>>]
        ELSE IF "exp" \in DOMAIN c /\ ~(now < c["exp"].n)
        THEN [err |-> Err("token is expired", "jwt"), claims |-> <<>>]
        ELSE [err |-> NoErr, claims |-> c]

\* JWTAuth.Authenticate on a request that carries the token.
AuthenticateToken(token, now) ==
    LET v == ValidateTokenAt(token, now)
    IN  IF v.err # NoErr THEN [authenticated |-> FALSE, userID |-> "", err |-> v.err]
        ELSE IF ~("sub" \in DOMAIN v.claims /\ v.claims["sub"].t = "str")
        THEN [authenticated |-> FALSE, userID |-> "",
              err |-> Err("invalid user ID in token", "")]
        ELSE [authenticated |-> TRUE, userID |-> v.claims["sub"].s, err |-> NoErr]

\* The tokens a client may present that the gateway did not issue.
PresentedTokens ==
    { [alg |-> a, key |-> k,
       claims |-> [c \in {"iss", "sub", "exp"} |->
                      CASE c = "iss" -> Str(i)
                        [] c = "sub" -> Str("mallory")
                        [] c = "exp" -> Num(e)]] :
      a \in SigningMethods, k \in SigningKeys, i \in Issuers, e \in {1, MaxClock + 1} }

\* The token calls made so far: the clock, the token GenerateToken returned
\* last with the arguments it was called with, and the last call.
NoJwt ==
    [now |-> 0, issued |-> NoToken, userID |-> "", custom |-> <<>>, issuedAt |-> 0,
     op |-> "", token |-> NoToken, err |-> NoErr, claims |-> <<>>,
     authenticated |-> FALSE, subject |-> ""]

ClockTicks ==
    /\ jwt.now < MaxClock
    /\ jwt' = [jwt EXCEPT !.now = @ + 1, !.op = ""]
    /\ UNCHANGED <<baseVars, srv, conn, unit, uc>>

ApiGenerateToken ==
    \E userID \in Subjects, claims \in CustomClaims :
        LET token == GenerateToken(userID, claims, jwt.now)
        IN  /\ jwt' = [jwt EXCEPT !.issued = token, !.userID = userID,
                                  !.custom = claims, !.issuedAt = jwt.now,
                                  !.op = "GenerateToken", !.token = token,
                                  !.err = NoErr, !.claims = <<>>,
                                  !.authenticated = FALSE, !.subject = ""]
            /\ UNCHANGED <<baseVars, srv, conn, unit, uc>>

ApiValidateToken ==
    \E token \in PresentedTokens \cup ({jwt.issued} \ {NoToken}) :
        LET v == ValidateTokenAt(token, jwt.now)
        IN  /\ jwt' = [jwt EXCEPT !.op = "ValidateToken", !.token = token,
                                  !.err = v.err, !.claims = v.claims,
                                  !.authenticated = FALSE, !.subject = ""]
            /\ UNCHANGED <<baseVars, srv, conn, unit, uc>>

ApiAuthenticateToken ==
    \E token \in PresentedTokens \cup ({jwt.issued} \ {NoToken}) :
        LET a == AuthenticateToken(token, jwt.now)
        IN  /\ jwt' = [jwt EXCEPT !.op = "Authenticate", !.token = token,
                                  !.err = a.err, !.claims = <<>>,
                                  !.authenticated = a.authenticated,
                                  !.subject = a.userID]
            /\ UNCHANGED <<baseVars, srv, conn, unit, uc>>

(***************************************************************************)
(* Redis keyspace                                                          *)
(***************************************************************************)

\* One key of the keyspace. val: the integer a counter holds; data: the
\* bytes a cache entry holds; ttl: whether an expiration is attached.
\* Two fields only observe the run: stale (a full window of 60 s has passed
\* since the key was created) and decrs (the DECRs done on it since then).
NoData == [isSet |-> FALSE, status |-> 0, body |-> "", cached |-> FALSE,
           headers |-> HeadersWith(NoHdr), contentLength |-> 0]
Counter(v, t, st, n) ==
    [val |-> v, data |-> NoData, ttl |-> t, stale |-> st, decrs |-> n]

EmptyKeyspace == [k \in {} |-> Counter(0, FALSE, FALSE, 0)]

Put(rds, key, entry) ==
    [k \in DOMAIN rds \cup {key} |-> IF k = key THEN entry ELSE rds[k]]

Del(rds, key) == [k \in DOMAIN rds \ {key} |-> rds[k]]

\* DECR: a missing key is created holding 0, without expiration, and then
\* decremented.
RedisDecr(rds, key) ==
    IF key \in DOMAIN rds
    THEN Put(rds, key, [rds[key] EXCEPT !.val = @ - 1, !.decrs = @ + 1])
    ELSE Put(rds, key, Counter(-1, FALSE, FALSE, 1))

\* EXPIRE key 60s
RedisExpire(rds, key) ==
    IF key \in DOMAIN rds
    THEN Put(rds, key, [rds[key] EXCEPT !.ttl = TRUE, !.stale = FALSE])
    ELSE rds

(***************************************************************************)
(* Token-bucket rate limiter                                               *)
(***************************************************************************)

\* The counter key of CheckLimit and RecordRequest:
\* "ratelimit:" + service.ID + ":" + request.Path + ":" + request.ClientIP
RateLimitKey(service, request) ==
    <<"ratelimit", service.id, request.path, request.clientIP>>

\* The counter key of GetLimit: service.ID, endpoint.Path, clientID
GetLimitKey(service, endpoint, clientID) ==
    <<"ratelimit", service.id, endpoint.path, clientID>>

\* The count CheckLimit and GetLimit read: the stored value, or the
\* endpoint's RateLimit when the key does not exist (redis.Nil).
ReadCount(rds, key, endpoint) ==
    IF key \in DOMAIN rds THEN rds[key].val ELSE endpoint.rateLimit

\* A limiter that admits without looking at the count.
CheckLimit_IgnoresStore(rds, request, service, endpoint) == TRUE

\* TokenBucketRateLimiter.CheckLimit (the store answered)
CheckLimit(rds, request, service, endpoint) ==
    LET count == ReadCount(rds, RateLimitKey(service, request), endpoint)
    IN  IF count <= 0 THEN FALSE ELSE TRUE

\* The keyspace after CheckLimit: its one command is GET.
CheckLimitStore(rds, request, service, endpoint) == rds

\* TokenBucketRateLimiter.RecordRequest (the store answered): the keyspace
\* after DECR and, when the new count is RateLimit-1, EXPIRE.
RecordRequest(rds, request, service, endpoint) ==
    LET key == RateLimitKey(service, request)
        decremented == RedisDecr(rds, key)
        count == decremented[key].val
    IN  IF count = endpoint.rateLimit - 1
        THEN RedisExpire(decremented, key)
        ELSE decremented

\* A GetLimit that creates the counter at the limit on its first read.
GetLimitStore_Initialises(rds, clientID, service, endpoint) ==
    LET key == GetLimitKey(service, endpoint, clientID)
    IN  IF key \in DOMAIN rds THEN rds
        ELSE Put(rds, key, Counter(endpoint.rateLimit, TRUE, FALSE, 0))

\* The keyspace after GetLimit: its one command is GET.
GetLimitStore(rds, clientID, service, endpoint) == rds

\* TokenBucketRateLimiter.GetLimit (the store answered): remaining, limit
GetLimit(rds, clientID, service, endpoint) ==
    [remaining |-> ReadCount(rds, GetLimitKey(service, endpoint, clientID), endpoint),
     limit |-> endpoint.rateLimit]

(***************************************************************************)
(* Response cache (CacheServiceAdapter over RedisCache)                    *)
(***************************************************************************)

\* The pipeline's cache key: service.ID + ":" + request.Path + ":" + request.Method
CacheKey(service, request) == <<service.id, request.path, request.method>>

\* json.Marshal of a *entity.Response
JsonMarshal(r) ==
    [isSet |-> TRUE, status |-> r.status, body |-> r.body, cached |-> r.cached,
     headers |-> r.headers, contentLength |-> r.contentLength]

\* json.Unmarshal into an interface{}: a JSON object becomes a
\* map[string]interface{} with the object's fields.
JsonUnmarshalAny(data) ==
    [goType |-> "map[string]interface{}",
     value |-> [status |-> data.status, body |-> data.body,
                cached |-> data.cached, headers |-> data.headers,
                contentLength |-> data.contentLength]]

\* The nil interface value.
NilValue ==
    [goType |-> "nil",
     value |-> [status |-> 0, body |-> "", cached |-> FALSE,
                headers |-> HeadersWith(NoHdr), contentLength |-> 0]]

\* RedisCache.Set with the ttl the caller passes: SET replaces the key; a
\* zero ttl attaches no expiration.
CacheSet(rds, key, value, ttlSeconds) ==
    Put(rds, key, [val |-> 0, data |-> JsonMarshal(value), ttl |-> ttlSeconds > 0,
                   stale |-> FALSE, decrs |-> 0])

\* CacheServiceAdapter.Get over RedisCache.Get (the store answered):
\* a missing key is ErrNotFound, found = false.
CacheGet(rds, key) ==
    IF key \in DOMAIN rds
    THEN [found |-> TRUE, err |-> NoErr, value |-> JsonUnmarshalAny(rds[key].data)]
    ELSE [found |-> FALSE, err |-> Err("not found", "ErrNotFound"),
          value |-> NilValue]

\* A RedisCache.Delete that leaves the key in place.
RedisCacheDelete_Keeps(rds, key) == rds

\* RedisCache.Delete: DEL key
RedisCacheDelete(rds, key) == Del(rds, key)

\* The keys that SCAN returns for a MATCH pattern; the adapter's pattern is
\* "*", which every key matches.
ScanMatch(rds, pattern) == { k \in DOMAIN rds : pattern = "*" }

\* RedisCache.Clear: DEL of every key that SCAN returns for the pattern
RedisCacheClear(rds, pattern) ==
    [k \in DOMAIN rds \ ScanMatch(rds, pattern) |-> rds[k]]

\* MockCache: Set keeps the value itself and ignores the ttl, Get hands it
\* back, Delete and Clear drop entries.
MockCacheSet(data, key, value) ==
    [k \in DOMAIN data \cup {key} |-> IF k = key THEN value ELSE data[k]]

MockCacheGet(data, key) ==
    IF key \in DOMAIN data
    THEN [found |-> TRUE, err |-> NoErr, value |-> data[key]]
    ELSE [found |-> FALSE, err |-> Err("not found", "ErrNotFound"), value |-> NilValue]

MockCacheDelete(data, key) == [k \in DOMAIN data \ {key} |-> data[k]]

MockCacheClear(data) == [k \in {} |-> NilValue]

\* ProxyRequest line 118: value.(*entity.Response)
IsResponsePtr(value) == value.goType = "*entity.Response"

(***************************************************************************)
(* Gateway service                                                         *)
(***************************************************************************)

\* GatewayService.ValidateRequest
ValidateRequest(request) ==
    IF request.method = "" THEN Err("invalid method", "ErrInvalidMethod")
    ELSE IF request.path = "" THEN Err("invalid path", "ErrInvalidPath")
    ELSE NoErr

ServiceHeaders(headers, service) ==
    [headers EXCEPT !["X-Service-ID"] = Hdr(FALSE, service.id),
                    !["X-Service-Name"] = Hdr(FALSE, service.name)]

\* GatewayService.TransformRequest: the transformed request carries the
\* caller's Headers map itself, with the two service headers written to it;
\* Authenticated is not among the fields copied.
TransformRequest(request, service) ==
    [request EXCEPT !.headers = ServiceHeaders(request.headers, service),
                    !.authenticated = FALSE]

\* GatewayService.TransformResponse: a new Response with the fields of the
\* struct literal copied, ContentLength not among them, and the two service
\* headers written to the Headers map.
TransformResponse(response, service) ==
    [response EXCEPT !.headers = ServiceHeaders(response.headers, service),
                     !.contentLength = 0]

\* HTTPClient.SendRequest: the URL is service.BaseURL followed by
\* request.Path, kept as the pair of its parts.
TargetURL(service, request) == <<service.baseURL, request.path>>

\* GatewayService.RouteRequest: the request is sent for a service built on
\* the spot.
DummyService ==
    [id |-> "dummy", name |-> "dummy", baseURL |-> "http://localhost",
     isActive |-> FALSE, endpoints |-> <<>>]

RouteRequest(request) == TargetURL(DummyService, request)

\* What the backend may answer, as the Response SendRequest builds from it
\* (the struct literal sets no ContentLength); a non-2xx status is a
\* response, not an error.
BackendResponses ==
    { [status |-> 200, body |-> "ok", cached |-> FALSE, headers |-> HeadersWith(NoHdr),
       contentLength |-> 0],
      [status |-> 500, body |-> "down", cached |-> FALSE,
       headers |-> [HeadersWith(NoHdr) EXCEPT !["Connection"] = Hdr(FALSE, "keep-alive")],
       contentLength |-> 0] }

(***************************************************************************)
(* ProxyUseCase.ProxyRequest, one collaborator call per step               *)
(***************************************************************************)

\* The stages in the order of the function body.
StageOrder ==
    << "ValidateRequest", "GetByEndpoint", "Authenticate", "Authorize",
       "CheckLimit", "RecordRequest", "CacheGet", "TransformRequest",
       "RouteRequest", "TransformResponse", "CacheSet" >>

StageRank(op) == CHOOSE i \in DOMAIN StageOrder : StageOrder[i] = op

\* A gateway that authenticates on every endpoint.
NeedsAuth_Always(endpoint) == TRUE

\* line 77: if endpoint.AuthRequired
NeedsAuth(endpoint) == endpoint.authRequired
\* line 97: if endpoint.RateLimit > 0
NeedsRateLimit(endpoint) == endpoint.rateLimit > 0
\* A pipeline that uses the cache on every endpoint.
NeedsCache_Always(endpoint) == TRUE

\* lines 114 and 144: if endpoint.CacheTTL > 0
NeedsCache(endpoint) == endpoint.cacheTTL > 0

PcAfterRateLimit(endpoint) ==
    IF NeedsCache(endpoint) THEN "cache_lookup" ELSE "transform_request"

\* A pipeline that records a request without checking the limit first.
PcAfterAuth_NoCheck(endpoint) ==
    IF NeedsRateLimit(endpoint) THEN "record_request" ELSE PcAfterRateLimit(endpoint)

PcAfterAuth(endpoint) ==
    IF NeedsRateLimit(endpoint) THEN "check_limit" ELSE PcAfterRateLimit(endpoint)

PcAfterResolve(endpoint) ==
    IF NeedsAuth(endpoint) THEN "authenticate" ELSE PcAfterAuth(endpoint)

\* A pipeline that gives up when RecordRequest fails.
PcAfterRecord_FailClosed(endpoint, recordErr) ==
    IF recordErr THEN "done" ELSE PcAfterRateLimit(endpoint)

\* lines 108-110: a RecordRequest error is logged and the request goes on
PcAfterRecord(endpoint, recordErr) == PcAfterRateLimit(endpoint)

\* A collaborator call and whether it succeeded; target is the URL a
\* backend call was sent to.
Logged(p, op, ok) == Append(calls[p], [op |-> op, ok |-> ok, target |-> <<>>])

\* A return that hands out a response together with the failure.
Fail_ReturnsResponse(p, e) ==
    /\ pc' = [pc EXCEPT ![p] = "done"]
    /\ result' = [result EXCEPT ![p] = [err |-> e, hasResp |-> TRUE, resp |-> resp[p]]]

\* return nil, err
Fail(p, e) ==
    /\ pc' = [pc EXCEPT ![p] = "done"]
    /\ result' = [result EXCEPT ![p] = [err |-> e, hasResp |-> FALSE, resp |-> NoResp]]

\* return response, nil
Succeed(p, r) ==
    /\ pc' = [pc EXCEPT ![p] = "done"]
    /\ result' = [result EXCEPT ![p] = [err |-> NoErr, hasResp |-> TRUE, resp |-> r]]

Goto(p, stage) ==
    /\ pc' = [pc EXCEPT ![p] = stage]
    /\ UNCHANGED result

Request(m, pa, a) ==
    [method |-> m, path |-> pa, headers |-> HeadersWith(a), clientIP |-> "ip1",
     authenticated |-> FALSE, userID |-> ""]

\* The requests clients send: each route with and without credentials, a
\* method the route does not allow, an unknown path, and requests that do
\* not pass validation.
Requests ==
    { Request("GET", "/pub", NoHdr),
      Request("POST", "/pub", NoHdr),
      Request("GET", "/rep", Hdr(TRUE, "tokBad")),
      Request("GET", "/none", NoHdr),
      [Request("GET", "/old", NoHdr)
          EXCEPT !.headers["Connection"] = Hdr(FALSE, "keep-alive")],
      Request("GET", "/dup", NoHdr),
      Request("", "/pub", NoHdr),
      Request("GET", "", NoHdr) }
    \cup { Request("GET", "/sec", a) : a \in AuthHeaders }

\* Handler.ProxyHandler builds the request and calls ProxyRequest.
Receive(p) ==
    /\ pc[p] = "idle"
    /\ \E r \in Requests : req' = [req EXCEPT ![p] = r]
    /\ Goto(p, "validate")
    /\ UNCHANGED <<adminVars, repoImpl, sel, resp, calls, redis, lim>>

\* lines 45-48
StageValidate(p) ==
    /\ pc[p] = "validate"
    /\ LET e == ValidateRequest(req[p])
       IN  /\ calls' = [calls EXCEPT ![p] = Logged(p, "ValidateRequest", e = NoErr)]
           /\ IF e # NoErr
              THEN Fail(p, Err("invalid request", e.cause))
              ELSE Goto(p, "resolve")
    /\ UNCHANGED <<adminVars, repoImpl, req, sel, resp, redis, lim>>

\* lines 50-74
StageResolve(p) ==
    /\ pc[p] = "resolve"
    /\ \E queryOk \in BOOLEAN :
        /\ (repoImpl = "mock" => queryOk)
        /\ LET got == GetByEndpoint(repoImpl, req[p].path, req[p].method, queryOk)
           IN  /\ calls' = [calls EXCEPT ![p] = Logged(p, "GetByEndpoint", got.err = NoErr)]
               /\ IF got.err # NoErr
                  THEN Fail(p, got.err) /\ UNCHANGED sel
                  ELSE IF got.services = {}
                  THEN Fail(p, Err("service not found", "ErrServiceNotFound"))
                       /\ UNCHANGED sel
                  ELSE \E service \in got.services :
                         LET i == MatchEndpointIndex(service, req[p].path)
                         IN  IF i = 0
                             THEN Fail(p, Err("no endpoint found for path", ""))
                                  /\ UNCHANGED sel
                             ELSE /\ sel' = [sel EXCEPT ![p] =
                                        [service |-> service,
                                         endpoint |-> service.endpoints[i],
                                         found |-> TRUE]]
                                  /\ Goto(p, PcAfterResolve(service.endpoints[i]))
    /\ UNCHANGED <<adminVars, repoImpl, req, resp, redis, lim>>

\* lines 76-88
StageAuthenticate(p) ==
    /\ pc[p] = "authenticate"
    /\ LET a == Authenticate(req[p])
       IN  /\ calls' = [calls EXCEPT ![p] =
                 Logged(p, "Authenticate", a.err = NoErr /\ a.authenticated)]
           /\ IF a.err # NoErr
              THEN Fail(p, Err("authentication failed", a.err.cause)) /\ UNCHANGED req
              ELSE IF ~a.authenticated
              THEN Fail(p, Err("unauthorized", "")) /\ UNCHANGED req
              ELSE /\ req' = [req EXCEPT ![p].userID = a.userID]
                   /\ Goto(p, "authorize")
    /\ UNCHANGED <<adminVars, repoImpl, sel, resp, redis, lim>>

\* lines 90-93
StageAuthorize(p) ==
    /\ pc[p] = "authorize"
    /\ LET e == Authorize(req[p], sel[p].service, sel[p].endpoint)
       IN  /\ calls' = [calls EXCEPT ![p] = Logged(p, "Authorize", e = NoErr)]
           /\ IF e # NoErr
              THEN Fail(p, Err("authorization failed", e.cause))
              ELSE Goto(p, PcAfterAuth(sel[p].endpoint))
    /\ UNCHANGED <<adminVars, repoImpl, req, sel, resp, redis, lim>>

\* lines 96-105; the Redis GET may fail
StageCheckLimit(p) ==
    /\ pc[p] = "check_limit"
    /\ \E storeOk \in BOOLEAN :
         LET allowed == CheckLimit(redis, req[p], sel[p].service, sel[p].endpoint)
         IN  /\ calls' = [calls EXCEPT ![p] = Logged(p, "CheckLimit", storeOk /\ allowed)]
             /\ IF ~storeOk
                THEN Fail(p, Err("rate limit check failed", "redis"))
                ELSE IF ~allowed
                THEN Fail(p, Err("rate limit exceeded", ""))
                ELSE Goto(p, "record_request")
    /\ redis' = CheckLimitStore(redis, req[p], sel[p].service, sel[p].endpoint)
    /\ UNCHANGED <<adminVars, repoImpl, req, sel, resp, lim>>

\* lines 107-110; the Redis DECR may fail
StageRecordRequest(p) ==
    /\ pc[p] = "record_request"
    /\ \E storeOk \in BOOLEAN :
         /\ calls' = [calls EXCEPT ![p] = Logged(p, "RecordRequest", storeOk)]
         /\ redis' = IF storeOk
                     THEN RecordRequest(redis, req[p], sel[p].service, sel[p].endpoint)
                     ELSE redis
         /\ Goto(p, PcAfterRecord(sel[p].endpoint, ~storeOk))
    /\ UNCHANGED <<adminVars, repoImpl, req, sel, resp, lim>>

\* lines 113-123; the Redis GET may fail. A miss is a completed lookup.
StageCacheLookup(p) ==
    /\ pc[p] = "cache_lookup"
    /\ \E storeOk \in BOOLEAN :
         LET got == IF storeOk THEN CacheGet(redis, CacheKey(sel[p].service, req[p]))
                    ELSE [found |-> FALSE, err |-> Err("failed to get cache value", "redis"),
                          value |-> NilValue]
         IN  /\ calls' = [calls EXCEPT ![p] = Logged(p, "CacheGet", storeOk)]
             /\ IF got.err = NoErr /\ got.found /\ IsResponsePtr(got.value)
                THEN Succeed(p, [status |-> got.value.value.status,
                                 body |-> got.value.value.body,
                                 cached |-> TRUE,
                                 headers |-> got.value.value.headers,
                                 contentLength |-> got.value.value.contentLength])
                ELSE Goto(p, "transform_request")
    /\ UNCHANGED <<adminVars, repoImpl, req, sel, resp, redis, lim>>

\* lines 125-129; req is the request ProxyRequest was called with, whose
\* Headers map is the one the transformed request holds (the handler always
\* passes a non-nil map, r.Header).
StageTransformRequest(p) ==
    /\ pc[p] = "transform_request"
    /\ calls' = [calls EXCEPT ![p] = Logged(p, "TransformRequest", TRUE)]
    /\ req' = [req EXCEPT ![p].headers =
                  TransformRequest(req[p], sel[p].service).headers]
    /\ Goto(p, "route_request")
    /\ UNCHANGED <<adminVars, repoImpl, sel, resp, redis, lim>>

\* lines 131-135; the backend call may fail
StageRouteRequest(p) ==
    /\ pc[p] = "route_request"
    /\ \E backendOk \in BOOLEAN, r \in BackendResponses :
         /\ calls' = [calls EXCEPT ![p] =
               Append(calls[p], [op |-> "RouteRequest", ok |-> backendOk,
                                 target |-> RouteRequest(req[p])])]
         /\ IF ~backendOk
            THEN Fail(p, Err("failed to route request", "http")) /\ UNCHANGED resp
            ELSE /\ resp' = [resp EXCEPT ![p] = r]
                 /\ Goto(p, "transform_response")
    /\ UNCHANGED <<adminVars, repoImpl, req, sel, redis, lim>>

\* lines 137-141 and, without caching, line 151
StageTransformResponse(p) ==
    /\ pc[p] = "transform_response"
    /\ calls' = [calls EXCEPT ![p] = Logged(p, "TransformResponse", TRUE)]
    /\ LET t == TransformResponse(resp[p], sel[p].service)
       IN  /\ resp' = [resp EXCEPT ![p] = t]
           /\ IF NeedsCache(sel[p].endpoint)
              THEN Goto(p, "cache_store")
              ELSE Succeed(p, t)
    /\ UNCHANGED <<adminVars, repoImpl, req, sel, redis, lim>>

\* lines 143-151; the Redis SET may fail
StageCacheStore(p) ==
    /\ pc[p] = "cache_store"
    /\ \E storeOk \in BOOLEAN :
         /\ calls' = [calls EXCEPT ![p] = Logged(p, "CacheSet", storeOk)]
         /\ redis' = IF storeOk
                     THEN CacheSet(redis, CacheKey(sel[p].service, req[p]), resp[p], 0)
                     ELSE redis
    /\ Succeed(p, resp[p])
    /\ UNCHANGED <<adminVars, repoImpl, req, sel, resp, lim>>

\* The handler has written the answer; the goroutine serves its next request.
Return(p) ==
    /\ pc[p] = "done"
    /\ pc' = [pc EXCEPT ![p] = "idle"]
    /\ req' = [req EXCEPT ![p] = NoReq]
    /\ sel' = [sel EXCEPT ![p] = NoSel]
    /\ resp' = [resp EXCEPT ![p] = NoResp]
    /\ calls' = [calls EXCEPT ![p] = <<>>]
    /\ result' = [result EXCEPT ![p] = NoResult]
    /\ UNCHANGED <<adminVars, repoImpl, redis, lim>>

\* Handler.ProxyHandler on what ProxyRequest returned: handleError with
\* http.StatusInternalServerError for any error, writeResponse with the
\* response's own status code otherwise.
ProxyHandlerStatus(res) == IF res.err # NoErr THEN 500 ELSE res.resp.status

IsCounterKey(k) == k[1] = "ratelimit"

\* Sixty seconds pass since counter key k was created: Redis drops it when
\* it carries an expiration, and keeps it otherwise.
WindowElapses(k) ==
    /\ k \in DOMAIN redis
    /\ IsCounterKey(k)
    /\ redis[k].ttl \/ ~redis[k].stale
    /\ redis' = IF redis[k].ttl THEN Del(redis, k)
                ELSE Put(redis, k, [redis[k] EXCEPT !.stale = TRUE])
    /\ UNCHANGED <<adminVars, repoImpl, pc, req, sel, resp, calls, result, lim>>

NoLim ==
    [op |-> "", key |-> <<>>, service |-> "", path |-> "", userID |-> "",
     clientIP |-> "", limit |-> 0, absent |-> FALSE, allowed |-> FALSE,
     remaining |-> 0]

\* How many RecordRequest calls the limiter is driven with per counter key.
MaxRecords == 3

\* The (service, endpoint) pairs the rate limiter is called with: a route
\* with a limit of 2, one with a limit of 1 and one without limit.
RegisteredRoutes ==
    UNION { { <<s, e>> : e \in { x \in Range(s.endpoints) :
                                    x.path \in {"/pub", "/sec", "/rep"} } } :
            s \in Range(Services) }

\* request.UserID as the limiter can be handed it: empty, or the subject
\* that ProxyRequest line 89 wrote after Authenticate.
UserIDs == {"", "alice"}

\* A request on the route as the limiter is handed it.
LimiterRequest(endpoint, user) ==
    [Request("GET", endpoint.path, NoHdr) EXCEPT !.userID = user]

LimCall(op, key, service, request, endpoint) ==
    [op |-> op, key |-> key, service |-> service.id, path |-> endpoint.path,
     userID |-> request.userID, clientIP |-> request.clientIP,
     limit |-> endpoint.rateLimit, absent |-> key \notin DOMAIN redis,
     allowed |-> FALSE, remaining |-> 0]

\* RateLimitUseCase.CheckLimit: a direct call for a request on the route.
ApiCheckLimit(service, endpoint) ==
    \E user \in UserIDs :
        LET request == LimiterRequest(endpoint, user)
            key == RateLimitKey(service, request)
        IN  /\ lim' = [LimCall("CheckLimit", key, service, request, endpoint)
                         EXCEPT !.allowed = CheckLimit(redis, request, service, endpoint)]
            /\ redis' = CheckLimitStore(redis, request, service, endpoint)
            /\ UNCHANGED <<adminVars, repoImpl, pc, req, sel, resp, calls, result>>

\* RateLimitService.RecordRequest: a direct call for a request on the route.
ApiRecordRequest(service, endpoint) ==
    \E user \in UserIDs :
        LET request == LimiterRequest(endpoint, user)
            key == RateLimitKey(service, request)
        IN  /\ key \in DOMAIN redis => redis[key].decrs < MaxRecords
            /\ redis' = RecordRequest(redis, request, service, endpoint)
            /\ lim' = LimCall("RecordRequest", key, service, request, endpoint)
            /\ UNCHANGED <<adminVars, repoImpl, pc, req, sel, resp, calls, result>>

\* RateLimitUseCase.GetLimit: a direct call for client ip1 on the route.
ApiGetLimit(service, endpoint) ==
    LET key == GetLimitKey(service, endpoint, "ip1")
        got == GetLimit(redis, "ip1", service, endpoint)
        request == LimiterRequest(endpoint, "")
    IN  /\ lim' = [LimCall("GetLimit", key, service, request, endpoint)
                     EXCEPT !.limit = got.limit, !.remaining = got.remaining]
        /\ redis' = GetLimitStore(redis, "ip1", service, endpoint)
        /\ UNCHANGED <<adminVars, repoImpl, pc, req, sel, resp, calls, result>>

(***************************************************************************)
(* In-memory service registry (ServiceRepositoryMock)                      *)
(***************************************************************************)

\* The IDs and names of the services that are registered; a service may
\* come without an ID.
ServiceIDs == {"", "a", "b"}
ServiceNames == {"users", "reports"}

\* The configuration a service of that name is registered with.
Catalogue(name) == CHOOSE s \in Range(Services) : s.name = name

NewService(id, name) ==
    [Catalogue(name) EXCEPT !.id = id]

EmptyRegistry == [i \in {} |-> NoService]

\* The last call: its arguments, the error and the services it returned.
NoRegOut ==
    [op |-> "", id |-> "", name |-> "", path |-> "", method |-> "",
     err |-> NoErr, found |-> {}]

\* The services the map holds.
Stored(reg) == { reg[i] : i \in DOMAIN reg }

\* r.services[id] = service
RegistryPut(reg, id, service) ==
    [i \in DOMAIN reg \cup {id} |-> IF i = id THEN service ELSE reg[i]]

\* ServiceRepositoryMock.Create: the error and the map after the call
MockCreate(reg, service) ==
    IF \E i \in DOMAIN reg : reg[i].name = service.name
    THEN [err |-> Err("already exists", "ErrAlreadyExists"), services |-> reg]
    ELSE LET id == IF service.id = "" THEN "test-id" ELSE service.id
         IN  [err |-> NoErr,
              services |-> RegistryPut(reg, id, [service EXCEPT !.id = id])]

\* ServiceRepositoryMock.Update: the error and the map after the call
MockUpdate(reg, service) ==
    IF service.id \notin DOMAIN reg
    THEN [err |-> Err("not found", "ErrNotFound"), services |-> reg]
    ELSE IF \E i \in DOMAIN reg : reg[i].name = service.name /\ reg[i].id # service.id
    THEN [err |-> Err("already exists", "ErrAlreadyExists"), services |-> reg]
    ELSE [err |-> NoErr, services |-> RegistryPut(reg, service.id, service)]

\* ServiceRepositoryMock.Get: the error and the service returned
MockGet(reg, id) ==
    IF id \notin DOMAIN reg
    THEN [err |-> Err("not found", "ErrNotFound"), found |-> {}]
    ELSE [err |-> NoErr, found |-> {reg[id]}]

\* ServiceRepositoryMock.GetAll
MockGetAll(reg) == [err |-> NoErr, found |-> Stored(reg)]

\* ServiceRepositoryMock.FindByName: the outcomes the call can have; the
\* map is ranged over in no fixed order and the first service of that name
\* is returned.
MockFindByName(reg, name) ==
    LET named == { s \in Stored(reg) : s.name = name }
    IN  IF named = {} THEN { [err |-> Err("not found", "ErrNotFound"), found |-> {}] }
        ELSE { [err |-> NoErr, found |-> {s}] : s \in named }

\* Delete that reports success and keeps the entry.
MockDelete_Keeps(reg, id) ==
    IF id \notin DOMAIN reg
    THEN [err |-> Err("not found", "ErrNotFound"), services |-> reg]
    ELSE [err |-> NoErr, services |-> reg]

\* ServiceRepositoryMock.Delete: the error and the map after the call
MockDelete(reg, id) ==
    IF id \notin DOMAIN reg
    THEN [err |-> Err("not found", "ErrNotFound"), services |-> reg]
    ELSE [err |-> NoErr, services |-> [i \in DOMAIN reg \ {id} |-> reg[i]]]

RegistryCall(op, id, name, out) ==
    /\ registry' = out.services
    /\ regOut' = [NoRegOut EXCEPT !.op = op, !.id = id, !.name = name,
                                  !.err = out.err]
    /\ UNCHANGED <<cacheVars, dbVars, authOut, extraVars, gatewayVars>>

\* A call that reads the map: out is the error and the services returned.
RegistryQuery(op, id, name, out) ==
    /\ regOut' = [NoRegOut EXCEPT !.op = op, !.id = id, !.name = name,
                                  !.err = out.err, !.found = out.found]
    /\ UNCHANGED <<registry, cacheVars, dbVars, authOut, extraVars, gatewayVars>>

\* Create with a service object the registry does not hold.
RegistryCreate ==
    \E id \in ServiceIDs, name \in ServiceNames :
        RegistryCall("Create", id, name, MockCreate(registry, NewService(id, name)))

\* Update with a service object the registry does not hold.
RegistryUpdate ==
    \E id \in ServiceIDs \cup {"test-id"}, name \in ServiceNames :
        RegistryCall("Update", id, name, MockUpdate(registry, NewService(id, name)))

\* Update with the object the registry holds: the map keeps the pointer it
\* was given by Create or Update and Get hands it out, so the caller writes
\* the new name to the stored object and then calls Update with it.
RegistryUpdateInPlace ==
    \E id \in DOMAIN registry, name \in ServiceNames :
        LET renamed == [registry EXCEPT ![id].name = name]
        IN  RegistryCall("Update", id, name, MockUpdate(renamed, renamed[id]))

RegistryDelete ==
    \E id \in ServiceIDs \cup {"test-id"} :
        RegistryCall("Delete", id, "", MockDelete(registry, id))

RegistryGet ==
    \E id \in ServiceIDs \cup {"test-id"} :
        RegistryQuery("Get", id, "", MockGet(registry, id))

RegistryGetAll == RegistryQuery("GetAll", "", "", MockGetAll(registry))

RegistryFindByName ==
    \E name \in ServiceNames :
        \E out \in MockFindByName(registry, name) :
            RegistryQuery("FindByName", "", name, out)

\* The paths and methods the registry is asked about.
LookupPaths ==
    UNION { { e.path : e \in Range(sv.endpoints) } : sv \in Range(Services) }
        \cup {"/none"}
LookupMethods == {"GET", "POST"}

RegistryGetByEndpoint ==
    \E path \in LookupPaths, method \in LookupMethods :
        LET got == MockGetByEndpointOf(Stored(registry), path, method)
        IN  /\ regOut' = [NoRegOut EXCEPT !.op = "GetByEndpoint",
                                          !.path = path, !.method = method,
                                          !.err = got.err,
                                          !.found = got.services]
            /\ UNCHANGED <<registry, cacheVars, dbVars, authOut, extraVars, gatewayVars>>

(***************************************************************************)
(* Database-backed service registry (ServiceRepositoryImpl over gorm)      *)
(***************************************************************************)

\* The services table (primary key id, unique index on name) and the
\* endpoints table, its rows grouped by service_id in insertion order.
EmptyDb == [services |-> [i \in {} |-> NoService], endpoints |-> [i \in {} |-> <<>>]]

\* The last call: its arguments, the statement at which the database
\* failed (0: none did) and the error returned.
NoDbOut ==
    [op |-> "", id |-> "", name |-> "", failAt |-> 0, err |-> NoErr,
     loaded |-> NoService]

\* A statement of a call fails when the connection does: the number of the
\* failing statement, 0 when none fails.
FailPoints == {0, 1, 2, 3}

\* mapEntityToModel: the row kept for a service.
DbServiceRow(service) ==
    [id |-> service.id, name |-> service.name, baseURL |-> service.baseURL,
     isActive |-> service.isActive]

\* The endpoints rows of a service.
DbRowsOf(d, id) == IF id \in DOMAIN d.endpoints THEN d.endpoints[id] ELSE <<>>

\* The services row written under its primary key.
DbPutService(d, row) ==
    [d EXCEPT !.services =
        [i \in DOMAIN d.services \cup {row.id} |->
            IF i = row.id THEN row ELSE d.services[i]]]

\* The first n endpoints of the service appended to its endpoints rows.
DbPutEndpoints(d, service, n) ==
    IF n = 0 THEN d ELSE
    [d EXCEPT !.endpoints =
        [i \in DOMAIN d.endpoints \cup {service.id} |->
            IF i = service.id
            THEN DbRowsOf(d, i) \o
                 [k \in 1..n |-> DbEndpointRow(service.endpoints[k])]
            ELSE d.endpoints[i]]]

\* DELETE FROM endpoints WHERE service_id = id
DbDropEndpoints(d, id) ==
    [d EXCEPT !.endpoints = [i \in DOMAIN d.endpoints \ {id} |-> d.endpoints[i]]]

\* The endpoint inserts of Create and Update, the first of them being
\* statement number first: all of them, or those before the failing one.
DbInsertEndpoints(d, service, first, failAt) ==
    LET n == Len(service.endpoints)
    IN  IF failAt >= first /\ failAt < first + n
        THEN [err |-> Err("failed to create endpoint", "db"),
              db |-> DbPutEndpoints(d, service, failAt - first)]
        ELSE [err |-> NoErr, db |-> DbPutEndpoints(d, service, n)]

\* ServiceRepositoryImpl.Create: the error and the tables after the call;
\* the INSERT of the services row is refused on a taken id or name.
DbCreate(d, service, failAt) ==
    LET row == DbServiceRow(service)
        taken == \/ row.id \in DOMAIN d.services
                 \/ \E i \in DOMAIN d.services : d.services[i].name = row.name
    IN  IF failAt = 1 \/ taken
        THEN [err |-> Err("failed to create service", "db"), db |-> d]
        ELSE DbInsertEndpoints(DbPutService(d, row), service, 2, failAt)

\* ServiceRepositoryImpl.Update: Save writes the row whether or not the id
\* is stored (UPDATE, then INSERT .. ON CONFLICT when no row was affected),
\* and is refused on a name another row has.
DbUpdate(d, service, failAt) ==
    LET row == DbServiceRow(service)
    IN  IF failAt = 1
           \/ \E i \in DOMAIN d.services \ {row.id} : d.services[i].name = row.name
        THEN [err |-> Err("failed to update service", "db"), db |-> d]
        ELSE IF failAt = 2
        THEN [err |-> Err("failed to delete endpoints", "db"),
              db |-> DbPutService(d, row)]
        ELSE DbInsertEndpoints(DbDropEndpoints(DbPutService(d, row), service.id),
                               service, 3, failAt)

\* ServiceRepositoryImpl.Delete: a DELETE that matches no row is no error.
DbDelete(d, id, failAt) ==
    IF failAt = 1
    THEN [err |-> Err("failed to delete endpoints", "db"), db |-> d]
    ELSE IF failAt = 2
    THEN [err |-> Err("failed to delete service", "db"), db |-> DbDropEndpoints(d, id)]
    ELSE [err |-> NoErr,
          db |-> [DbDropEndpoints(d, id) EXCEPT !.services =
                    [i \in DOMAIN d.services \ {id} |-> d.services[i]]]]

\* mapModelToEntity and loadEndpoints: the entity rebuilt from the services
\* row and the endpoints rows; Methods is an empty slice and CacheTTL is
\* not among the fields set.
DbLoadService(d, id) ==
    [id |-> id, name |-> d.services[id].name, baseURL |-> d.services[id].baseURL,
     isActive |-> d.services[id].isActive,
     endpoints |-> [i \in DOMAIN DbRowsOf(d, id) |->
         LET row == DbRowsOf(d, id)[i]
         IN  Endpoint(row.path, <<>>, row.rateLimit, row.authRequired, 0)]]

\* ServiceRepositoryImpl.Get: First gives gorm.ErrRecordNotFound on no row.
DbGet(d, id, failAt) ==
    IF failAt \in {1, 2}
    THEN [err |-> Err(IF failAt = 1 THEN "failed to get service"
                      ELSE "failed to load endpoints", "db"), db |-> d,
          loaded |-> NoService]
    ELSE IF id \notin DOMAIN d.services
    THEN [err |-> Err("failed to get service", "gorm.ErrRecordNotFound"), db |-> d,
          loaded |-> NoService]
    ELSE [err |-> NoErr, db |-> d, loaded |-> DbLoadService(d, id)]

DbCall(op, id, name, failAt, out) ==
    /\ db' = out.db
    /\ dbOut' = [op |-> op, id |-> id, name |-> name, failAt |-> failAt,
                 err |-> out.err,
                 loaded |-> IF "loaded" \in DOMAIN out THEN out.loaded ELSE NoService]
    /\ UNCHANGED <<registryVars, cacheVars, authOut, extraVars, gatewayVars>>

DbRegistryCreate ==
    \E id \in ServiceIDs, name \in ServiceNames, failAt \in FailPoints :
        DbCall("Create", id, name, failAt, DbCreate(db, NewService(id, name), failAt))

DbRegistryUpdate ==
    \E id \in ServiceIDs, name \in ServiceNames, failAt \in FailPoints :
        DbCall("Update", id, name, failAt, DbUpdate(db, NewService(id, name), failAt))

DbRegistryDelete ==
    \E id \in ServiceIDs, failAt \in FailPoints :
        DbCall("Delete", id, "", failAt, DbDelete(db, id, failAt))

DbRegistryGet ==
    \E id \in ServiceIDs, failAt \in FailPoints :
        DbCall("Get", id, "", failAt, DbGet(db, id, failAt))

(***************************************************************************)
(* HTTP layer: the middleware chain of Router.Setup and the process        *)
(* lifecycle of main and Server.Start / Server.Stop                        *)
(***************************************************************************)

Conns == {"c1", "c2"}

\* The signals the environment sends at most.
MaxSignals == 2

\* The requests that match a route of Router.Setup: the health check and
\* the proxy prefix, with no Authorization header, one the auth use case
\* accepts and one it rejects.
HttpRequests ==
    { [method |-> "GET", path |-> "/health", token |-> ""],
      [method |-> "OPTIONS", path |-> "/api/v1/x", token |-> ""] } \cup
    { [method |-> "GET", path |-> "/api/v1/x", token |-> t] : t \in {"", "good", "bad"} }

NoHttpRequest == [method |-> "", path |-> "", token |-> ""]

\* A connection: where its request is in the chain, whether the status line
\* has been written and with which code, whether a panic was raised, and
\* what the logger was called with.
NoConn ==
    [pc |-> "idle", request |-> NoHttpRequest, wroteHeader |-> FALSE, status |-> 0,
     panicked |-> FALSE, errorLogged |-> FALSE, infoLogged |-> FALSE]

\* http.ResponseWriter.WriteHeader: the first call sends the status line, a
\* later one changes nothing.
WriteHeader(c, code) ==
    [c EXCEPT !.wroteHeader = TRUE, !.status = IF c.wroteHeader THEN c.status ELSE code]

\* A recovery middleware without the deferred recover: the panic goes on to
\* the caller.
recoveryMiddleware_Rethrows(c) == [c EXCEPT !.pc = "escaped"]

\* Router.recoveryMiddleware, the deferred function on a panic: log the
\* error and answer with http.Error(w, ..., 500); the handler returns to
\* loggingMiddleware.
recoveryMiddleware(c) ==
    [WriteHeader(c, 500) EXCEPT !.errorLogged = TRUE, !.pc = "logging"]

\* The main goroutine: its position, the listener, the channels registered
\* with signal.Notify, the signals buffered in Server.shutdown and in main's
\* quit (both of capacity 1), the signals sent so far and the exit code.
InitSrv ==
    [main |-> "start", listening |-> FALSE, registered |-> {}, shutdownCh |-> 0,
     quitCh |-> 0, signals |-> 0, exitCode |-> ""]

Running == srv.main # "exited"

\* server.ServeHTTP on a new request: loggingMiddleware wraps the writer and
\* recoveryMiddleware installs its deferred function.
ServeHTTP(c) ==
    /\ Running /\ srv.listening
    /\ conn[c].pc = "idle"
    /\ \E r \in HttpRequests :
         conn' = [conn EXCEPT ![c] = [NoConn EXCEPT !.pc = "cors", !.request = r]]
    /\ UNCHANGED <<baseVars, jwt, srv, unit, uc>>

\* Router.corsMiddleware, then the route: /health, or the /api subrouter
\* with authMiddleware.
CorsMiddleware(c) ==
    /\ Running
    /\ conn[c].pc = "cors"
    /\ conn' = [conn EXCEPT ![c] =
          IF conn[c].request.method = "OPTIONS"
          THEN [WriteHeader(conn[c], 200) EXCEPT !.pc = "logging"]
          ELSE IF conn[c].request.path = "/health"
          THEN [conn[c] EXCEPT !.pc = "health"]
          ELSE [conn[c] EXCEPT !.pc = "auth"]]
    /\ UNCHANGED <<baseVars, jwt, srv, unit, uc>>

\* Handler.HealthCheckHandler
HealthCheckHandler(c) ==
    /\ Running
    /\ conn[c].pc = "health"
    /\ conn' = [conn EXCEPT ![c] = [WriteHeader(conn[c], 200) EXCEPT !.pc = "logging"]]
    /\ UNCHANGED <<baseVars, jwt, srv, unit, uc>>

\* Router.authMiddleware: 401 without a header or with a token the use case
\* rejects; the call into the use case may panic.
AuthMiddleware(c) ==
    /\ Running
    /\ conn[c].pc = "auth"
    /\ \E panics \in BOOLEAN :
         conn' = [conn EXCEPT ![c] =
            IF conn[c].request.token = ""
            THEN [WriteHeader(conn[c], 401) EXCEPT !.pc = "logging"]
            ELSE IF panics
            THEN [conn[c] EXCEPT !.pc = "panic", !.panicked = TRUE]
            ELSE IF conn[c].request.token = "bad"
            THEN [WriteHeader(conn[c], 401) EXCEPT !.pc = "logging"]
            ELSE [conn[c] EXCEPT !.pc = "proxy"]]
    /\ UNCHANGED <<baseVars, jwt, srv, unit, uc>>

\* Handler.ProxyHandler: ProxyRequest returns an error, a response, or
\* panics in one of its collaborators; nothing is written before it returns.
ProxyHandler(c) ==
    /\ Running
    /\ conn[c].pc = "proxy"
    /\ \E res \in {[NoResult EXCEPT !.err = Err("failed to route request", "http")]}
                  \cup {[NoResult EXCEPT !.hasResp = TRUE, !.resp = r] : r \in BackendResponses},
          panics \in BOOLEAN :
         conn' = [conn EXCEPT ![c] =
            IF panics
            THEN [conn[c] EXCEPT !.pc = "panic", !.panicked = TRUE]
            ELSE [WriteHeader(conn[c], ProxyHandlerStatus(res)) EXCEPT !.pc = "logging"]]
    /\ UNCHANGED <<baseVars, jwt, srv, unit, uc>>

\* The panic unwinds to the deferred function of recoveryMiddleware.
RecoveryMiddleware(c) ==
    /\ Running
    /\ conn[c].pc = "panic"
    /\ conn' = [conn EXCEPT ![c] = recoveryMiddleware(conn[c])]
    /\ UNCHANGED <<baseVars, jwt, srv, unit, uc>>

\* Router.loggingMiddleware after next.ServeHTTP returned.
LoggingMiddleware(c) ==
    /\ Running
    /\ conn[c].pc = "logging"
    /\ conn' = [conn EXCEPT ![c] = [conn[c] EXCEPT !.infoLogged = TRUE, !.pc = "completed"]]
    /\ UNCHANGED <<baseVars, jwt, srv, unit, uc>>

\* The client has its answer, or net/http dropped the connection after a
\* panic that reached it; the connection is free for the next request.
ConnCloses(c) ==
    /\ Running
    /\ conn[c].pc \in {"completed", "escaped"}
    /\ conn' = [conn EXCEPT ![c] = NoConn]
    /\ UNCHANGED <<baseVars, jwt, srv, unit, uc>>

ConnStep(c) ==
    \/ CorsMiddleware(c)
    \/ HealthCheckHandler(c)
    \/ AuthMiddleware(c)
    \/ ProxyHandler(c)
    \/ RecoveryMiddleware(c)
    \/ LoggingMiddleware(c)
    \/ ConnCloses(c)

\* Server.Start up to its receive: signal.Notify(s.shutdown, ...) and the
\* goroutine running ListenAndServe.
ServerStart ==
    /\ srv.main = "start"
    /\ srv' = [srv EXCEPT !.main = "waitShutdown", !.listening = TRUE,
                          !.registered = @ \cup {"shutdown"}]
    /\ UNCHANGED <<baseVars, jwt, conn, unit, uc>>

\* SIGINT or SIGTERM arrives: with no channel registered the default action
\* ends the process; otherwise the runtime offers the signal to every
\* registered channel without blocking, dropping it where the buffer is full.
Signal ==
    /\ Running
    /\ srv.signals < MaxSignals
    /\ srv' = IF srv.registered = {}
              THEN [srv EXCEPT !.signals = @ + 1, !.main = "exited",
                               !.exitCode = "signal", !.listening = FALSE]
              ELSE [srv EXCEPT !.signals = @ + 1,
                               !.shutdownCh = IF "shutdown" \in srv.registered THEN 1 ELSE @,
                               !.quitCh = IF "quit" \in srv.registered THEN 1 ELSE @]
    /\ UNCHANGED <<baseVars, jwt, conn, unit, uc>>

\* <-s.shutdown in Server.Start, then server.Shutdown closes the listener.
ServerReceivesShutdown ==
    /\ srv.main = "waitShutdown"
    /\ srv.shutdownCh > 0
    /\ srv' = [srv EXCEPT !.main = "shutdown", !.shutdownCh = @ - 1, !.listening = FALSE]
    /\ UNCHANGED <<baseVars, jwt, conn, unit, uc>>

\* server.Shutdown returns nil once no connection is serving a request;
\* Start returns nil to main.
ShutdownReturns ==
    /\ srv.main = "shutdown"
    /\ \A c \in Conns : conn[c].pc = "idle"
    /\ srv' = [srv EXCEPT !.main = "notifyQuit"]
    /\ UNCHANGED <<baseVars, jwt, conn, unit, uc>>

\* The 30 s context ends while a request is still being served: Shutdown
\* and Start return the error and main calls os.Exit(1).
ShutdownTimesOut ==
    /\ srv.main = "shutdown"
    /\ \E c \in Conns : conn[c].pc # "idle"
    /\ srv' = [srv EXCEPT !.main = "exited", !.exitCode = "1"]
    /\ UNCHANGED <<baseVars, jwt, conn, unit, uc>>

\* main after server.Start returned nil: signal.Notify(quit, ...), <-quit.
MainNotifyQuit ==
    /\ srv.main = "notifyQuit"
    /\ srv' = [srv EXCEPT !.main = "waitQuit", !.registered = @ \cup {"quit"}]
    /\ UNCHANGED <<baseVars, jwt, conn, unit, uc>>

\* main receives from quit and calls Server.Stop, whose send on s.shutdown
\* goes through when the buffer has room and blocks otherwise: Start has
\* returned and nothing receives from the channel any more. After Stop main
\* returns and the process exits.
MainStop ==
    /\ srv.main = "waitQuit"
    /\ srv.quitCh > 0
    /\ srv' = IF srv.shutdownCh < 1
              THEN [srv EXCEPT !.quitCh = @ - 1, !.shutdownCh = @ + 1,
                               !.main = "exited", !.exitCode = "0"]
              ELSE [srv EXCEPT !.quitCh = @ - 1, !.main = "blockedInStop"]
    /\ UNCHANGED <<baseVars, jwt, conn, unit, uc>>

MainStep ==
    \/ ServerStart
    \/ ServerReceivesShutdown
    \/ ShutdownReturns
    \/ ShutdownTimesOut
    \/ MainNotifyQuit
    \/ MainStop

(***************************************************************************)
(* Domain entities: Endpoint.Validate                                      *)
(***************************************************************************)

\* A string as the sequence of its characters, for the prefix test.
HasPrefix(str, prefix) ==
    /\ Len(str) >= Len(prefix)
    /\ \A i \in 1..Len(prefix) : str[i] = prefix[i]

\* line 145: the methods Validate knows.
validMethods == {"GET", "POST", "PUT", "DELETE", "PATCH", "HEAD", "OPTIONS"}

\* Endpoint.Validate: the message of the first check that fails, "" for
\* nil. FailureThreshold, a float64, is kept in tenths.
EndpointValidate(e) ==
    IF e.path = <<>> THEN "endpoint path is required"
    ELSE IF ~HasPrefix(e.path, <<"/">>) THEN "endpoint path must start with /"
    ELSE IF Len(e.methods) = 0 THEN "at least one HTTP method is required"
    ELSE IF \E i \in DOMAIN e.methods : e.methods[i] \notin validMethods
    THEN "invalid HTTP method"
    ELSE IF e.rateLimit < 0 THEN "rate limit cannot be negative"
    ELSE IF e.timeout < 0 THEN "timeout cannot be negative"
    ELSE IF e.retryCount < 0 THEN "retry count cannot be negative"
    ELSE IF e.retryDelay < 0 THEN "retry delay cannot be negative"
    ELSE IF e.cbEnabled /\ (e.failureThreshold < 0 \/ e.failureThreshold > 10)
    THEN "circuit breaker failure threshold must be between 0 and 1"
    ELSE IF e.cbEnabled /\ e.minRequestCount < 0
    THEN "circuit breaker minimum request count cannot be negative"
    ELSE IF e.cbEnabled /\ e.breakDuration < 0
    THEN "circuit breaker break duration cannot be negative"
    ELSE IF e.cbEnabled /\ e.halfOpenRequests < 0
    THEN "circuit breaker half-open requests cannot be negative"
    ELSE IF e.cacheEnabled /\ e.ttl < 0 THEN "cache TTL cannot be negative"
    ELSE ""

\* The endpoint configurations Validate is called with.
EndpointInputs ==
    [ path : {<<>>, <<"x">>, <<"/", "x">>},
      methods : {<<>>, <<"GET">>, <<"*">>, <<"GET", "get">>},
      rateLimit : {-1, 0}, timeout : {-1, 0}, retryCount : {-1, 0},
      retryDelay : {-1, 0}, cacheTTL : {-1, 30},
      cbEnabled : BOOLEAN, failureThreshold : {-1, 0, 5, 10, 11},
      minRequestCount : {-1, 0}, breakDuration : {-1, 0}, halfOpenRequests : {-1, 0},
      cacheEnabled : BOOLEAN, ttl : {-1, 0} ]

\* The last call on an entity: the operation, "" before the call, the
\* receiver and the error message returned.
NoUnit == [op |-> "", endpoint |-> NoEndpoint, err |-> ""]

ApiEndpointValidate ==
    /\ unit.op = ""
    /\ unit.endpoint # NoEndpoint
    /\ unit' = [unit EXCEPT !.op = "Validate", !.err = EndpointValidate(unit.endpoint)]
    /\ UNCHANGED <<baseVars, jwt, srv, conn, uc>>

(***************************************************************************)
(* ServiceUseCase.CreateService / UpdateService over the in-memory         *)
(* registry, one repository call or field write per step                   *)
(***************************************************************************)

\* A caller: its position, the call and its arguments, the stored object it
\* got from Get (aliased: the map still holds that very object; otherwise
\* held is the object, which the map has since replaced), and the error the
\* call returned.
NoUc ==
    [pc |-> "idle", op |-> "", id |-> "", name |-> "", aliased |-> FALSE,
     held |-> NoService, err |-> NoErr]

\* The object a caller holds.
HeldObject(p) == IF uc[p].aliased THEN registry[uc[p].id] ELSE uc[p].held

\* The map entry of id is given another object: callers that hold the old
\* one keep it, now apart from the map.
Detached(p, id) ==
    [q \in Procs |->
        IF q # p /\ uc[q].pc \in {"u_find", "u_write", "u_update"}
           /\ uc[q].id = id /\ uc[q].aliased
        THEN [uc[q] EXCEPT !.aliased = FALSE, !.held = registry[id]]
        ELSE uc[q]]

UcFrame == UNCHANGED <<gatewayVars, regOut, cacheVars, dbVars, authOut, jwt, srv, conn, unit>>

\* The registry is filled through the repository, as the tests do, while no
\* use case runs.
SeedRegistry ==
    /\ \A p \in Procs : uc[p].pc = "idle"
    /\ RegistryCreate

\* A caller enters CreateService(req) or UpdateService(id, req).
UcCall(p) ==
    /\ uc[p].pc = "idle"
    /\ \/ \E name \in ServiceNames :
            uc' = [uc EXCEPT ![p] = [NoUc EXCEPT !.pc = "c_find", !.op = "CreateService",
                                                 !.name = name]]
       \/ \E id \in (ServiceIDs \ {""}) \cup {"test-id"}, name \in ServiceNames :
            uc' = [uc EXCEPT ![p] = [NoUc EXCEPT !.pc = "u_get", !.op = "UpdateService",
                                                 !.id = id, !.name = name]]
    /\ UNCHANGED registry
    /\ UcFrame

\* CreateService, lines 47-51: FindByName
UcCreateFind(p) ==
    /\ uc[p].pc = "c_find"
    /\ \E out \in MockFindByName(registry, uc[p].name) :
         uc' = [uc EXCEPT ![p] =
                  IF out.err = NoErr
                  THEN [@ EXCEPT !.pc = "done", !.err = Err("already exists", "ErrAlreadyExists")]
                  ELSE [@ EXCEPT !.pc = "c_create"]]
    /\ UNCHANGED registry
    /\ UcFrame

\* CreateService, lines 54-62: ToEntity sets no ID; Create
UcCreate(p) ==
    /\ uc[p].pc = "c_create"
    /\ LET out == MockCreate(registry, NewService("", uc[p].name))
           replaced == out.err = NoErr /\ "test-id" \in DOMAIN registry
       IN  /\ registry' = out.services
           /\ uc' = [(IF replaced THEN Detached(p, "test-id") ELSE uc) EXCEPT
                        ![p] = [uc[p] EXCEPT !.pc = "done", !.err = out.err,
                                             !.id = IF out.err = NoErr THEN "test-id" ELSE ""]]
    /\ UcFrame

\* UpdateService, lines 78-84: Get hands out the stored object; the name
\* comparison decides whether FindByName is called.
UcUpdateGet(p) ==
    /\ uc[p].pc = "u_get"
    /\ LET out == MockGet(registry, uc[p].id)
       IN  uc' = [uc EXCEPT ![p] =
                    IF out.err # NoErr THEN [@ EXCEPT !.pc = "done", !.err = out.err]
                    ELSE [@ EXCEPT !.aliased = TRUE,
                                   !.pc = IF uc[p].name # registry[uc[p].id].name
                                          THEN "u_find" ELSE "u_write"]]
    /\ UNCHANGED registry
    /\ UcFrame

\* UpdateService, lines 84-89: FindByName
UcUpdateFind(p) ==
    /\ uc[p].pc = "u_find"
    /\ \E out \in MockFindByName(registry, uc[p].name) :
         uc' = [uc EXCEPT ![p] =
                  IF out.err = NoErr /\ \E sv \in out.found : sv.id # uc[p].id
                  THEN [@ EXCEPT !.pc = "done", !.err = Err("already exists", "ErrAlreadyExists")]
                  ELSE [@ EXCEPT !.pc = "u_write"]]
    /\ UNCHANGED registry
    /\ UcFrame

\* UpdateService, lines 92-133: the fields of the request are written to
\* the object Get returned, outside the registry's lock.
UcUpdateWrite(p) ==
    /\ uc[p].pc = "u_write"
    /\ LET written == [NewService(uc[p].id, uc[p].name) EXCEPT
                          !.isActive = HeldObject(p).isActive]
       IN  IF uc[p].aliased
           THEN /\ registry' = [registry EXCEPT ![uc[p].id] = written]
                /\ uc' = [uc EXCEPT ![p].pc = "u_update"]
           ELSE /\ uc' = [uc EXCEPT ![p].pc = "u_update", ![p].held = written]
                /\ UNCHANGED registry
    /\ UcFrame

\* UpdateService, lines 136-140: Update with the object held
UcUpdate(p) ==
    /\ uc[p].pc = "u_update"
    /\ LET out == MockUpdate(registry, HeldObject(p))
           replaced == out.err = NoErr /\ ~uc[p].aliased
       IN  /\ registry' = out.services
           /\ uc' = [(IF replaced THEN Detached(p, uc[p].id) ELSE uc) EXCEPT
                        ![p] = [uc[p] EXCEPT !.pc = "done", !.err = out.err]]
    /\ UcFrame

\* The caller has its answer.
UcReturn(p) ==
    /\ uc[p].pc = "done"
    /\ uc' = [uc EXCEPT ![p] = NoUc]
    /\ UNCHANGED registry
    /\ UcFrame


(***************************************************************************)
(* Cache service adapter (CacheServiceAdapter over a CacheRepository)      *)
(***************************************************************************)

\* The keys and values callers of the adapter use, and the ttl in seconds
\* they pass to Set.
AdapterKeys == { <<"s2", "/rep", "GET">>, <<"s1", "/pub", "GET">> }
AdapterValues == { [goType |-> "*entity.Response", value |-> r] : r \in BackendResponses }
NoTTL == 0
SomeTTL == 30

EmptyCache == [k \in {} |-> NilValue]
NoLatest == [k \in {} |-> [value |-> NilValue, expired |-> FALSE]]
NoCacheOut ==
    [op |-> "", key |-> <<>>, found |-> FALSE, value |-> NilValue, err |-> NoErr,
     wasSet |-> FALSE, setValue |-> NilValue, expired |-> FALSE]

\* What a call on key k found written by the calls before it.
CacheOut(op, k, got) ==
    [op |-> op, key |-> k, found |-> got.found, value |-> got.value, err |-> got.err,
     wasSet |-> k \in DOMAIN latest,
     setValue |-> IF k \in DOMAIN latest THEN latest[k].value ELSE NilValue,
     expired |-> IF k \in DOMAIN latest THEN latest[k].expired ELSE FALSE]

NoGet == [found |-> FALSE, value |-> NilValue, err |-> NoErr]

\* CacheServiceAdapter.Set
AdapterSet(k, v, ttl) ==
    /\ IF cacheImpl = "redis"
       THEN redis' = CacheSet(redis, k, v.value, ttl) /\ UNCHANGED mockData
       ELSE mockData' = MockCacheSet(mockData, k, v) /\ UNCHANGED redis
    /\ latest' = [x \in DOMAIN latest \cup {k} |->
                    IF x = k THEN [value |-> v, expired |-> FALSE] ELSE latest[x]]
    /\ cacheOut' = CacheOut("Set", k, NoGet)
    /\ UNCHANGED <<cacheImpl, registryVars, dbVars, authOut, extraVars, repoImpl, pc, req, sel, resp, calls, result, lim>>

\* CacheServiceAdapter.Get
AdapterGet(k) ==
    /\ cacheOut' = CacheOut("Get", k, IF cacheImpl = "redis" THEN CacheGet(redis, k)
                                      ELSE MockCacheGet(mockData, k))
    /\ UNCHANGED <<cacheImpl, mockData, latest, registryVars, dbVars, authOut, extraVars, gatewayVars>>

\* CacheServiceAdapter.Delete
AdapterDelete(k) ==
    /\ IF cacheImpl = "redis"
       THEN redis' = RedisCacheDelete(redis, k) /\ UNCHANGED mockData
       ELSE mockData' = MockCacheDelete(mockData, k) /\ UNCHANGED redis
    /\ latest' = [x \in DOMAIN latest \ {k} |-> latest[x]]
    /\ cacheOut' = CacheOut("Delete", k, NoGet)
    /\ UNCHANGED <<cacheImpl, registryVars, dbVars, authOut, extraVars, repoImpl, pc, req, sel, resp, calls, result, lim>>

\* CacheServiceAdapter.Clear
AdapterClear ==
    /\ IF cacheImpl = "redis"
       THEN redis' = RedisCacheClear(redis, "*") /\ UNCHANGED mockData
       ELSE mockData' = MockCacheClear(mockData) /\ UNCHANGED redis
    /\ latest' = NoLatest
    /\ cacheOut' = CacheOut("Clear", <<>>, NoGet)
    /\ UNCHANGED <<cacheImpl, registryVars, dbVars, authOut, extraVars, repoImpl, pc, req, sel, resp, calls, result, lim>>

\* The ttl of a cache entry in Redis runs out.
CacheEntryExpires(k) ==
    /\ cacheImpl = "redis"
    /\ k \in DOMAIN redis
    /\ ~IsCounterKey(k)
    /\ redis[k].ttl
    /\ redis' = Del(redis, k)
    /\ latest' = IF k \in DOMAIN latest
                 THEN [latest EXCEPT ![k].expired = TRUE] ELSE latest
    /\ UNCHANGED <<cacheImpl, mockData, cacheOut, registryVars, dbVars, authOut, extraVars, repoImpl, pc, req, sel,
                   resp, calls, result, lim>>

\* A request on /pub is recorded by the rate limiter, which shares the
\* Redis client with the cache.
RecordOnSharedStore == ApiRecordRequest(Services[1], Services[1].endpoints[1])

InitGateway ==
    /\ pc = [p \in Procs |-> "idle"]
    /\ req = [p \in Procs |-> NoReq]
    /\ sel = [p \in Procs |-> NoSel]
    /\ resp = [p \in Procs |-> NoResp]
    /\ calls = [p \in Procs |-> <<>>]
    /\ result = [p \in Procs |-> NoResult]
    /\ redis = EmptyKeyspace
    /\ lim = NoLim
    /\ registry = EmptyRegistry
    /\ regOut = NoRegOut
    /\ mockData = EmptyCache
    /\ latest = NoLatest
    /\ cacheOut = NoCacheOut
    /\ db = EmptyDb
    /\ dbOut = NoDbOut
    /\ authOut = NoAuthOut
    /\ jwt = NoJwt
    /\ srv = InitSrv
    /\ conn = [c \in Conns |-> NoConn]
    /\ uc = [p \in Procs |-> NoUc]

\* The adapter over either repository, with the in-memory registry wired.
InitCache ==
    /\ InitGateway
    /\ unit = NoUnit
    /\ repoImpl = "mock"
    /\ cacheImpl \in {"redis", "mock"}

Init ==
    /\ InitGateway
    /\ unit = NoUnit
    /\ cacheImpl = "redis"
    /\ repoImpl \in {"mock", "db"}

Next ==
    \/ \E p \in Procs : Receive(p)
    \/ \E p \in Procs : StageValidate(p)
    \/ \E p \in Procs : StageResolve(p)
    \/ \E p \in Procs : StageAuthenticate(p)
    \/ \E p \in Procs : StageAuthorize(p)
    \/ \E p \in Procs : StageCheckLimit(p)
    \/ \E p \in Procs : StageRecordRequest(p)
    \/ \E p \in Procs : StageCacheLookup(p)
    \/ \E p \in Procs : StageTransformRequest(p)
    \/ \E p \in Procs : StageRouteRequest(p)
    \/ \E p \in Procs : StageTransformResponse(p)
    \/ \E p \in Procs : StageCacheStore(p)
    \/ \E p \in Procs : Return(p)
    \/ \E k \in DOMAIN redis : WindowElapses(k)

Spec == Init /\ [][Next]_vars

\* The rate limiter driven directly through its interface.
NextLimiter ==
    \/ \E r \in RegisteredRoutes : ApiCheckLimit(r[1], r[2])
    \/ \E r \in RegisteredRoutes : ApiRecordRequest(r[1], r[2])
    \/ \E r \in RegisteredRoutes : ApiGetLimit(r[1], r[2])
    \/ \E k \in DOMAIN redis : WindowElapses(k)

SpecLimiter == Init /\ [][NextLimiter]_vars

\* The cache adapter driven through the CacheService interface, next to
\* the rate limiter.
NextCache ==
    \/ \E k \in AdapterKeys, v \in AdapterValues, ttl \in {NoTTL, SomeTTL} :
          AdapterSet(k, v, ttl)
    \/ \E k \in AdapterKeys : AdapterGet(k)
    \/ \E k \in AdapterKeys : AdapterDelete(k)
    \/ AdapterClear
    \/ \E k \in DOMAIN redis : CacheEntryExpires(k)
    \/ RecordOnSharedStore

SpecCache == InitCache /\ [][NextCache]_vars

\* The in-memory registry driven through the ServiceRepository interface.
NextRegistry ==
    \/ RegistryCreate
    \/ RegistryUpdate
    \/ RegistryUpdateInPlace
    \/ RegistryDelete
    \/ RegistryGet
    \/ RegistryGetAll
    \/ RegistryFindByName
    \/ RegistryGetByEndpoint

SpecRegistry == Init /\ [][NextRegistry]_vars

\* The database registry driven through the ServiceRepository interface.
NextDb ==
    \/ DbRegistryCreate
    \/ DbRegistryUpdate
    \/ DbRegistryDelete
    \/ DbRegistryGet

SpecDb == Init /\ [][NextDb]_vars

\* The auth service driven through the AuthService interface.
NextAuth ==
    \/ ApiAuthenticate
    \/ ApiAuthorize

SpecAuth == Init /\ [][NextAuth]_vars

\* The token functions of the auth service driven directly, on a clock.
NextToken ==
    \/ ClockTicks
    \/ ApiGenerateToken
    \/ ApiValidateToken
    \/ ApiAuthenticateToken

SpecToken == Init /\ [][NextToken]_vars

\* Two callers of the service use case on the in-memory registry.
NextUseCase ==
    \/ SeedRegistry
    \/ \E p \in Procs : UcCall(p)
    \/ \E p \in Procs : UcCreateFind(p)
    \/ \E p \in Procs : UcCreate(p)
    \/ \E p \in Procs : UcUpdateGet(p)
    \/ \E p \in Procs : UcUpdateFind(p)
    \/ \E p \in Procs : UcUpdateWrite(p)
    \/ \E p \in Procs : UcUpdate(p)
    \/ \E p \in Procs : UcReturn(p)

SpecUseCase == Init /\ [][NextUseCase]_vars

\* Endpoint.Validate applied to each configuration of EndpointInputs.
InitEntity ==
    /\ InitGateway
    /\ cacheImpl = "redis"
    /\ repoImpl = "mock"
    /\ unit \in { [NoUnit EXCEPT !.endpoint = e] : e \in EndpointInputs }

NextEntity == ApiEndpointValidate

SpecEntity == InitEntity /\ [][NextEntity]_vars

\* The process from start to exit, serving requests on its connections.
NextServer ==
    \/ \E c \in Conns : ServeHTTP(c)
    \/ \E c \in Conns : CorsMiddleware(c)
    \/ \E c \in Conns : HealthCheckHandler(c)
    \/ \E c \in Conns : AuthMiddleware(c)
    \/ \E c \in Conns : ProxyHandler(c)
    \/ \E c \in Conns : RecoveryMiddleware(c)
    \/ \E c \in Conns : LoggingMiddleware(c)
    \/ \E c \in Conns : ConnCloses(c)
    \/ ServerStart
    \/ Signal
    \/ ServerReceivesShutdown
    \/ ShutdownReturns
    \/ ShutdownTimesOut
    \/ MainNotifyQuit
    \/ MainStop

SpecServer == Init /\ [][NextServer]_vars

\* The same process under the Go scheduler: a goroutine that can take its
\* next step does take it; the environment need not send a signal.
SpecServerLive ==
    /\ Init
    /\ [][NextServer]_vars
    /\ WF_vars(MainStep)
    /\ \A c \in Conns : WF_vars(ConnStep(c))

(***************************************************************************)
(* Properties of the pipeline                                              *)
(***************************************************************************)

Ops(p) == { calls[p][i].op : i \in DOMAIN calls[p] }

\* The collaborator calls of one invocation appear in the order of StageOrder.
Ordered(p) ==
    \A i, j \in DOMAIN calls[p] :
        i < j => StageRank(calls[p][i].op) < StageRank(calls[p][j].op)

\* Whether the endpoint's configuration makes the pipeline run stage s.
StageRuns(s, endpoint) ==
    CASE s \in {"Authenticate", "Authorize"} -> NeedsAuth(endpoint)
      [] s \in {"CheckLimit", "RecordRequest"} -> NeedsRateLimit(endpoint)
      [] s \in {"CacheGet", "CacheSet"} -> NeedsCache(endpoint)
      [] OTHER -> TRUE

\* Every stage that was started comes after every earlier stage that the
\* endpoint does not skip.
NothingJumped(p) ==
    \A j \in DOMAIN calls[p] :
        LET op == calls[p][j].op
        IN  /\ StageRank(op) > 2 => sel[p].found
            /\ \A s \in Range(StageOrder) :
                 ( /\ StageRank(s) < StageRank(op)
                   /\ StageRank(s) <= 2 \/ StageRuns(s, sel[p].endpoint) )
                 => \E i \in 1..(j - 1) : calls[p][i].op = s

\* The stages whose failure is logged and does not end the invocation.
NonFatalStages == {"RecordRequest", "CacheGet", "CacheSet"}

NoCredential(request) == getAuthToken(request.headers) = ""

\* C2: an invocation whose request resolved to an endpoint with
\* authRequired = true and carries no credential ends with the error
\* "unauthorized" and no response, and never calls CheckLimit,
\* RecordRequest, the cache's Get or Set, or RouteRequest.
C2_UnauthenticatedRejected ==
    \A p \in Procs :
        (sel[p].found /\ sel[p].endpoint.authRequired /\ NoCredential(req[p]))
        => /\ pc[p] \in {"authenticate", "done"}
           /\ Ops(p) \cap {"CheckLimit", "RecordRequest", "CacheGet", "CacheSet",
                           "RouteRequest", "Authorize"} = {}
           /\ pc[p] = "done" =>
                /\ result[p].err = Err("unauthorized", "")
                /\ ~result[p].hasResp

\* A request without credentials on the protected endpoint was rejected.
C2_Witness ==
    \E p \in Procs :
        /\ sel[p].found /\ sel[p].endpoint.authRequired /\ NoCredential(req[p])
        /\ pc[p] = "done"
        /\ result[p].err.msg = "unauthorized"
        /\ Ops(p) = {"ValidateRequest", "GetByEndpoint", "Authenticate"}

\* C3: an invocation whose request resolved to an endpoint with
\* authRequired = false never calls Authenticate or Authorize, whatever
\* credentials the request carries, and does not end with an
\* authentication or authorization error.
C3_PublicSkipsAuth ==
    \A p \in Procs :
        (sel[p].found /\ ~sel[p].endpoint.authRequired)
        => /\ Ops(p) \cap {"Authenticate", "Authorize"} = {}
           /\ pc[p] \notin {"authenticate", "authorize"}
           /\ result[p].err.msg \notin {"unauthorized", "authentication failed",
                                        "authorization failed"}

\* A request carrying a credential that would not validate was answered by
\* an endpoint that needs no authentication.
C3_Witness ==
    \E p \in Procs :
        /\ sel[p].found /\ ~sel[p].endpoint.authRequired
        /\ ~NoCredential(req[p])
        /\ ~ValidateToken(getAuthToken(req[p].headers)).valid
        /\ pc[p] = "done"
        /\ result[p].hasResp

\* No registered service has an endpoint with the request's path that
\* allows its method.
NoRoute(request) == MockMatches(request.path, request.method) = {}

\* C4: when no registered service has an endpoint matching the request's
\* path and method, the GetByEndpoint call of the invocation fails (it is
\* never an empty success), ProxyRequest returns an error that is NotFound,
\* and no auth, rate-limit, cache or backend call is made.
C4_NoRouteIsNotFound ==
    \A p \in Procs :
        ( /\ "GetByEndpoint" \in Ops(p)
          /\ NoRoute(req[p])
          /\ result[p].err.cause # "db" )
        => /\ \A i \in DOMAIN calls[p] :
                calls[p][i].op = "GetByEndpoint" => ~calls[p][i].ok
           /\ pc[p] = "done"
           /\ result[p].err.cause = "ErrNotFound"
           /\ Ops(p) = {"ValidateRequest", "GetByEndpoint"}

(***************************************************************************)
(* Properties of the rate limiter                                          *)
(***************************************************************************)

\* The counter key of the invocation of p.
KeyOf(p) == RateLimitKey(sel[p].service, req[p])

\* The step in which CheckLimit of p returns and the store answered.
CheckAnswered(p) ==
    /\ pc[p] = "check_limit"
    /\ pc'[p] # "check_limit"
    /\ result'[p].err.cause # "redis"

\* The step in which RecordRequest of p returns.
RecordReturned(p) ==
    /\ pc[p] = "record_request"
    /\ pc'[p] # "record_request"

\* No other invocation is between its CheckLimit and its RecordRequest on
\* the counter of p.
Sequential(p) ==
    \A q \in Procs \ {p} : pc[q] = "record_request" => KeyOf(q) # KeyOf(p)

C5_Step(p) ==
    LET k == KeyOf(p)
        N == sel[p].endpoint.rateLimit
    IN  /\ ( /\ CheckAnswered(p)
             /\ Sequential(p)
             /\ k \in DOMAIN redis => ~redis[k].stale )
           => ( pc'[p] = "record_request"
                <=> (IF k \in DOMAIN redis THEN redis[k].decrs ELSE 0) < N )
        /\ ( /\ RecordReturned(p)
             /\ calls'[p][Len(calls'[p])].ok
             /\ redis'[k].decrs <= N )
           => redis'[k].val = N - redis'[k].decrs

\* C5: on an endpoint with rateLimit = N > 0, starting from a counter key
\* that does not exist, the requests of one window that come one after the
\* other are admitted exactly while fewer than N were recorded, and the
\* k-th RecordRequest leaves the count N - k.
C5_BudgetOfN == [][\A p \in Procs : C5_Step(p)]_vars

\* C6: once the window of a counter key has elapsed, the next CheckLimit on
\* that key returns true.
C6_AdmittedAfterWindow ==
    [][\A p \in Procs :
         ( /\ CheckAnswered(p)
           /\ KeyOf(p) \in DOMAIN redis
           /\ redis[KeyOf(p)].stale )
         => pc'[p] = "record_request"]_vars

\* C7: every rate-limit counter key in the store has an expiration.
C7_EveryCounterExpires ==
    \A k \in DOMAIN redis : IsCounterKey(k) => redis[k].ttl

C8_Step(p) ==
    /\ (pc[p] = "check_limit" /\ pc'[p] # "check_limit") => redis' = redis
    /\ CheckAnswered(p)
       => ( pc'[p] = "record_request"
            <=> ReadCount(redis, KeyOf(p), sel[p].endpoint) > 0 )
    /\ RecordReturned(p)
       => /\ pc'[p] \in {"cache_lookup", "transform_request"}
          /\ result'[p] = NoResult

\* C8: CheckLimit and RecordRequest are two steps and not one: CheckLimit
\* admits on the count it reads and leaves the store as it is, reserving
\* nothing, and RecordRequest never turns an admitted request away whatever
\* the count has become in between.
C8_NotAtomic == [][\A p \in Procs : C8_Step(p)]_vars

\* Two invocations of one client on the endpoint with rateLimit 1 were both
\* admitted in one window and both recorded: two tokens taken out of one.
C8_Witness ==
    \E p \in Procs : \E q \in Procs \ {p} :
        /\ sel[p].found /\ sel[q].found
        /\ sel[p].endpoint.rateLimit = 1
        /\ KeyOf(p) = KeyOf(q)
        /\ \A x \in {p, q} :
             \E i \in DOMAIN calls[x] :
                calls[x][i].op = "RecordRequest" /\ calls[x][i].ok
        /\ KeyOf(p) \in DOMAIN redis
        /\ redis[KeyOf(p)].decrs = 2
        /\ ~redis[KeyOf(p)].stale

\* C9: CheckLimit returns true for every endpoint with rateLimit <= 0,
\* whatever the counter store holds and also when the key does not exist.
C9_UnlimitedAlwaysAllowed ==
    (lim.op = "CheckLimit" /\ lim.limit <= 0) => lim.allowed

\* C10: the remaining count that GetLimit reports is never negative.
C10_RemainingNeverNegative ==
    lim.op = "GetLimit" => lim.remaining >= 0

\* The client a request counts against: its authenticated user when it has
\* one, its IP address otherwise.
ClientIdentifier(userID, clientIP) == IF userID # "" THEN userID ELSE clientIP

\* C11: the counter key that CheckLimit, RecordRequest and GetLimit address
\* is made of the service ID, the endpoint path and the client identifier,
\* which is the request's authenticated user ID when it has one and its
\* client IP otherwise.
C11_KeyByClientIdentity ==
    lim.op # ""
    => lim.key = <<"ratelimit", lim.service, lim.path,
                   ClientIdentifier(lim.userID, lim.clientIP)>>

\* A call of CheckLimit or GetLimit on the rate limiter.
ReadOnlyCall ==
    \/ \E r \in RegisteredRoutes : ApiCheckLimit(r[1], r[2])
    \/ \E r \in RegisteredRoutes : ApiGetLimit(r[1], r[2])

CacheKeyOf(p) == CacheKey(sel[p].service, req[p])

\* The step in which the cache lookup of p returns and the store answered.
LookupAnswered(p) ==
    /\ pc[p] = "cache_lookup"
    /\ pc'[p] # "cache_lookup"
    /\ calls'[p][Len(calls'[p])].ok

\* C13: when a response is stored under the request's service, path and
\* method, the lookup of a later request ends the invocation with that
\* response: the same status, body and headers, cachedResult = true, and
\* no call of the backend forwarder.
C13_SecondServedFromCache ==
    [][\A p \in Procs :
         (LookupAnswered(p) /\ CacheKeyOf(p) \in DOMAIN redis)
         => /\ pc'[p] = "done"
            /\ result'[p].hasResp
            /\ result'[p].resp.cached
            /\ result'[p].resp.status = redis[CacheKeyOf(p)].data.status
            /\ result'[p].resp.body = redis[CacheKeyOf(p)].data.body
            /\ result'[p].resp.headers = redis[CacheKeyOf(p)].data.headers]_vars

\* C14: every response the pipeline has stored in the cache carries an
\* expiration, the CacheTTL of its endpoint.
C14_StoredWithTTL ==
    \A k \in DOMAIN redis : ~IsCounterKey(k) => redis[k].ttl

\* C16: an invocation whose resolved endpoint has cacheTTL = 0 never calls
\* the cache's Get or Set.
C16_NoCacheWithoutTTL ==
    \A p \in Procs :
        (sel[p].found /\ sel[p].endpoint.cacheTTL = 0)
        => /\ Ops(p) \cap {"CacheGet", "CacheSet"} = {}
           /\ pc[p] \notin {"cache_lookup", "cache_store"}

\* A request on an endpoint with cacheTTL = 0 was forwarded and answered.
C16_Witness ==
    \E p \in Procs :
        /\ sel[p].found /\ sel[p].endpoint.cacheTTL = 0
        /\ pc[p] = "done"
        /\ result[p].hasResp
        /\ "TransformResponse" \in Ops(p)

\* The calls of p after position i that failed in a stage whose failure
\* ends the invocation.
FatalFailureAfter(p, i) ==
    \E j \in DOMAIN calls[p] :
        j > i /\ ~calls[p][j].ok /\ calls[p][j].op \notin NonFatalStages

\* C18: RecordRequest, the cache lookup and the cache store never end a
\* request, whether they fail or, for the lookup, find nothing: an
\* invocation that made one of these calls ends with an error only when a
\* later stage failed, and otherwise returns the transformed response of
\* the backend.
C18_NonFatalStagesGoOn ==
    \A p \in Procs :
        pc[p] = "done"
        => \A i \in DOMAIN calls[p] :
             calls[p][i].op \in NonFatalStages
             => IF FatalFailureAfter(p, i)
                THEN result[p].err # NoErr
                ELSE /\ result[p].err = NoErr
                     /\ result[p].hasResp
                     /\ result[p].resp = resp[p]
                     /\ "RouteRequest" \in Ops(p)

\* RecordRequest, the cache lookup and the cache store all failed in one
\* invocation, which returned the backend's response.
C18_Witness ==
    \E p \in Procs :
        /\ pc[p] = "done"
        /\ result[p].hasResp
        /\ \A op \in NonFatalStages :
             \E i \in DOMAIN calls[p] : calls[p][i].op = op /\ ~calls[p][i].ok

\* The stages whose failure ends the invocation, as C19 names them.
FatalStages ==
    {"ValidateRequest", "GetByEndpoint", "Authenticate", "Authorize", "RouteRequest"}

C24_OnlyActiveResolved ==
    \A p \in Procs : sel[p].found => sel[p].service.isActive

\* C25: the endpoint whose policy an invocation applies is the first
\* declared endpoint of the resolved service whose path is the request's
\* path and whose methods, as registered, hold the request's method or
\* "*"; an endpoint that does not allow the method is never the one chosen.
C25_EndpointMatchesMethod ==
    \A p \in Procs :
        sel[p].found =>
            LET registered == CHOOSE sv \in Range(Services) :
                                  sv.id = sel[p].service.id
                allowing == { i \in DOMAIN registered.endpoints :
                                /\ registered.endpoints[i].path = req[p].path
                                /\ \E m \in Range(registered.endpoints[i].methods) :
                                       m = req[p].method \/ m = "*" }
            IN  /\ allowing # {}
                /\ \A i \in allowing :
                       (\A j \in allowing : i <= j)
                       => sel[p].endpoint = sel[p].service.endpoints[i]

(***************************************************************************)
(* Properties of transformation, forwarding and the auth step              *)
(***************************************************************************)

HopByHopHeaders ==
    { "Connection", "Keep-Alive", "Proxy-Authenticate", "Proxy-Authorization",
      "TE", "Trailers", "Transfer-Encoding", "Upgrade" }

NoHopByHop(headers) ==
    \A h \in HopByHopHeaders \cap DOMAIN headers : ~headers[h].present

\* C26: once TransformRequest has run, the headers of the request that is
\* forwarded hold no hop-by-hop header, and once TransformResponse has run,
\* neither do the headers of the response.
C26_NoHopByHopHeaders ==
    \A p \in Procs :
        /\ "TransformRequest" \in Ops(p) => NoHopByHop(req[p].headers)
        /\ "TransformResponse" \in Ops(p) => NoHopByHop(resp[p].headers)

\* C27: TransformRequest leaves the request it was called with as it was,
\* the contents of its Headers map included, and TransformResponse does the
\* same for the response of the backend call (whose fields the transformed
\* response repeats).
C27_Step ==
    \A p \in Procs :
        /\ (pc[p] = "transform_request" /\ pc'[p] # pc[p]) => req'[p] = req[p]
        /\ (pc[p] = "transform_response" /\ pc'[p] # pc[p]) => resp'[p] = resp[p]

C27_TransformLeavesOriginal == [][C27_Step]_vars

\* C28: the backend call of an invocation goes to the base URL of the
\* service the invocation resolved, followed by the request's path.
C28_BackendIsResolvedService ==
    \A p \in Procs : \A i \in DOMAIN calls[p] :
        calls[p][i].op = "RouteRequest"
        => calls[p][i].target = TargetURL(sel[p].service, req[p])

\* C29: after Authenticate succeeded for a request, the request is marked
\* authenticated and bears the subject of its token as user ID, for the rest
\* of the invocation; Authorize is only called for a request so marked.
C29_AuthMarksRequest ==
    \A p \in Procs :
        /\ (\E i \in DOMAIN calls[p] :
                calls[p][i].op = "Authenticate" /\ calls[p][i].ok)
           => /\ req[p].authenticated
              /\ req[p].userID = ValidateToken(getAuthToken(req[p].headers)).sub
        /\ "Authorize" \in Ops(p) => req[p].authenticated

\* The roles of the identity a credential stands for; none when the token
\* is missing or does not validate.
RolesOf(auth) == ValidateToken(getAuthToken(HeadersWith(auth))).roles

NamesUnique(reg) ==
    \A i, j \in DOMAIN reg : reg[i].name = reg[j].name => i = j

\* C20: no two services stored in the in-memory registry share a name, and
\* after an Update that failed with AlreadyExists the service does not bear
\* the name that was refused.
C20_NamesStayUnique ==
    /\ NamesUnique(registry)
    /\ (regOut.op = "Update" /\ regOut.err.cause = "ErrAlreadyExists")
       => registry[regOut.id].name # regOut.name

\* What holds of the registry right after Delete(id) returned nil: no read
\* hands the service out any more.
GoneFrom(reg, id) ==
    /\ MockGet(reg, id).err.cause = "ErrNotFound"
    /\ \A s \in MockGetAll(reg).found : s.id # id
    /\ \A n \in ServiceNames : \A out \in MockFindByName(reg, n) :
           \A s \in out.found : s.id # id
    /\ \A pa \in LookupPaths, m \in LookupMethods :
           \A s \in MockGetByEndpointOf(Stored(reg), pa, m).services : s.id # id

\* C21: in the in-memory registry, Get, Update and Delete of an ID that is
\* not registered fail with NotFound and leave the map as it was; right
\* after a Delete(id) that succeeded, Get(id) is NotFound and GetAll,
\* FindByName and GetByEndpoint no longer return the service.
C21_Step ==
    /\ (regOut'.op \in {"Get", "Update", "Delete"}
        /\ regOut'.id \notin DOMAIN registry)
       => (regOut'.err.cause = "ErrNotFound" /\ registry' = registry)
    /\ (regOut'.op = "Delete" /\ regOut'.id \in DOMAIN registry)
       => (regOut'.err = NoErr /\ GoneFrom(registry', regOut'.id))

C21_NotFoundAndDeleted == [][C21_Step]_vars

\* A Delete succeeded while another service stays registered.
C21_Witness ==
    /\ regOut.op = "Delete"
    /\ regOut.err = NoErr
    /\ registry # EmptyRegistry

(***************************************************************************)
(* Properties of the database registry                                     *)
(***************************************************************************)

\* C22: in the database registry, with the database answering every
\* statement, Get, Update and Delete of an ID that is not stored fail with
\* a not-found error and leave both tables as they were.
C22_Step ==
    (/\ dbOut'.op \in {"Get", "Update", "Delete"}
     /\ dbOut'.failAt = 0
     /\ dbOut'.id \notin DOMAIN db.services)
    => /\ dbOut'.err.cause \in {"ErrNotFound", "gorm.ErrRecordNotFound"}
       /\ db' = db

C22_UnknownIdIsNotFound == [][C22_Step]_vars

\* C23: Create is all-or-nothing: when the insert of one of the service's
\* endpoints fails, Create returns an error and neither the service row nor
\* any endpoint row of it is stored afterwards.
C23_Step ==
    (/\ dbOut'.op = "Create"
     /\ dbOut'.id \notin DOMAIN db.services
     /\ dbOut'.err.msg = "failed to create endpoint")
    => /\ dbOut'.id \notin DOMAIN db'.services
       /\ DbRowsOf(db', dbOut'.id) = <<>>

C23_CreateAllOrNothing == [][C23_Step]_vars

(***************************************************************************)
(* Properties of the cache service adapter                                 *)
(***************************************************************************)

\* C15: Clear on the cache leaves every rate-limit counter key of the
\* shared store in place with the value it had.
C15_ClearKeepsCounters ==
    [][AdapterClear
       => \A k \in DOMAIN redis :
            IsCounterKey(k) => (k \in DOMAIN redis' /\ redis'[k] = redis[k])]_vars

C31_ValidateTokenRule ==
    jwt.op = "ValidateToken" =>
        LET c == jwt.token.claims
        IN  /\ jwt.err = NoErr =>
                /\ jwt.token.key = SecretKey
                /\ "iss" \in DOMAIN c /\ c["iss"] = Str(Issuer)
                /\ "exp" \in DOMAIN c => c["exp"].t = "num" /\ jwt.now < c["exp"].n
            /\ (jwt.token = jwt.issued /\ jwt.custom = <<>>
                /\ jwt.now < jwt.issuedAt + Expiration) => jwt.err = NoErr

\* C39: the subject of a token GenerateToken(userID, claims) returns is
\* userID, its issuer is the gateway's and its expiry the gateway's own,
\* whatever the custom claims hold; Authenticate on that token, before it
\* expires, yields userID.
C39_TokenCarriesUserID ==
    /\ jwt.op = "GenerateToken" =>
          /\ jwt.token.claims["sub"] = Str(jwt.userID)
          /\ jwt.token.claims["iss"] = Str(Issuer)
          /\ jwt.token.claims["exp"] = Num(jwt.issuedAt + Expiration)
    /\ (jwt.op = "Authenticate" /\ jwt.token = jwt.issued
        /\ jwt.now < jwt.issuedAt + Expiration) =>
          /\ jwt.authenticated
          /\ jwt.subject = jwt.userID

(***************************************************************************)
(* Properties of the HTTP layer                                            *)
(***************************************************************************)

\* C32: every fatal pipeline error reaches the caller with the status of
\* its class: 429 for a rate-limit denial, 401 for a missing or invalid
\* credential, 404 for a missing route, and 500 only for the other faults.
C32_StatusFollowsTaxonomy ==
    \A p \in Procs :
        (pc[p] = "done" /\ result[p].err # NoErr) =>
            LET m == result[p].err.msg
                status == ProxyHandlerStatus(result[p])
            IN  /\ m = "rate limit exceeded" => status = 429
                /\ m \in {"unauthorized", "authentication failed",
                          "authorization failed"} => status = 401
                /\ (m \in {"service not found", "no endpoint found for path"}
                    \/ result[p].err.cause = "ErrNotFound") => status = 404
                /\ status = 500 =>
                      m \in {"invalid request", "rate limit check failed",
                             "failed to route request", "failed to get services"}

\* C33: a panic raised while a request is handled does not leave the
\* gateway's handler chain: the recovery middleware logs an error and the
\* client is answered with 500.
C33_PanicBecomes500 ==
    \A c \in Conns :
        /\ conn[c].pc # "escaped"
        /\ (conn[c].panicked /\ conn[c].pc \in {"logging", "completed"}) =>
              /\ conn[c].errorLogged
              /\ conn[c].wroteHeader
              /\ conn[c].status = 500

\* A request that panicked inside ProxyHandler and was answered.
C33_Witness ==
    \E c \in Conns :
        /\ conn[c].panicked
        /\ conn[c].pc = "completed"
        /\ conn[c].request.token = "good"
        /\ conn[c].status = 500

\* C40: once the running process has received a termination signal, the
\* server shuts down and the process exits, with no second signal sent.
C40_ExitsAfterOneSignal ==
    (srv.signals = 1 /\ srv.main # "start") ~> (srv.main = "exited" \/ srv.signals > 1)

(***************************************************************************)
(* Properties of the domain entities                                       *)
(***************************************************************************)

\* C34: Endpoint.Validate returns no error exactly for the endpoints whose
\* path starts with "/", whose methods are a non-empty list of GET, POST,
\* PUT, DELETE, PATCH, HEAD, OPTIONS or "*", whose rate limit, timeout,
\* retry count, retry delay and cache TTL are not negative, and whose
\* failure threshold lies in [0,1] when the circuit breaker is enabled.
C34_ValidateExactly ==
    unit.op = "Validate" =>
        LET e == unit.endpoint
        IN  unit.err = "" <=>
              /\ HasPrefix(e.path, <<"/">>)
              /\ Len(e.methods) > 0
              /\ \A i \in DOMAIN e.methods : e.methods[i] \in validMethods \cup {"*"}
              /\ e.rateLimit >= 0 /\ e.timeout >= 0
              /\ e.retryCount >= 0 /\ e.retryDelay >= 0
              /\ e.cacheTTL >= 0
              /\ e.cbEnabled => (0 <= e.failureThreshold /\ e.failureThreshold <= 10)

\* C35: every Response the pipeline returns carries the byte length of its
\* body as contentLength.
C35_ContentLengthIsBodyLength ==
    \A p \in Procs :
        (pc[p] = "done" /\ result[p].hasResp) =>
            result[p].resp.contentLength =
                (CASE result[p].resp.body = "" -> 0
                   [] result[p].resp.body = "ok" -> 2
                   [] result[p].resp.body = "down" -> 4)

(***************************************************************************)
(* Properties of Create and of the use cases on the in-memory registry     *)
(***************************************************************************)

\* C37: a successful Create on the in-memory registry stores the service
\* under a non-empty ID, leaves every service registered before retrievable
\* by its ID and by its name, and makes the map one entry larger.
C37_CreateOnlyAdds ==
    [][ (regOut'.op = "Create" /\ regOut'.err = NoErr) =>
          /\ \E i \in DOMAIN registry' \ {""} :
                registry'[i].name = regOut'.name /\ registry'[i].id = i
          /\ \A i \in DOMAIN registry :
                /\ MockGet(registry', i) = MockGet(registry, i)
                /\ MockFindByName(registry', registry[i].name)
                      = MockFindByName(registry, registry[i].name)
          /\ Cardinality(DOMAIN registry') = Cardinality(DOMAIN registry) + 1 ]_vars

\* C38: in the database registry, Get(service.ID) right after a successful
\* Create(service) returns the endpoints the service was created with, equal
\* in path, methods, rate limit, auth requirement and cache TTL.
C38_CreateThenGet ==
    [][ (/\ dbOut.op = "Create" /\ dbOut.err = NoErr
         /\ dbOut'.op = "Get" /\ dbOut'.err = NoErr
         /\ dbOut'.id = dbOut.id)
        => LET created == NewService(dbOut.id, dbOut.name).endpoints
               got == dbOut'.loaded.endpoints
           IN  /\ Len(got) = Len(created)
               /\ \A i \in DOMAIN created :
                     /\ got[i].path = created[i].path
                     /\ got[i].methods = created[i].methods
                     /\ got[i].rateLimit = created[i].rateLimit
                     /\ got[i].authRequired = created[i].authRequired
                     /\ got[i].cacheTTL = created[i].cacheTTL ]_vars

\* C36: under any interleaving of CreateService and UpdateService calls on
\* the in-memory registry no two stored services bear the same name, and of
\* two calls in flight together that take the same name for two different
\* services at most one succeeds.
C36_NamesDistinctUnderInterleaving ==
    /\ \A i, j \in DOMAIN registry : registry[i].name = registry[j].name => i = j
    /\ \A p, q \in Procs :
          (/\ p # q
           /\ uc[p].pc = "done" /\ uc[q].pc = "done"
           /\ uc[p].err = NoErr /\ uc[q].err = NoErr
           /\ uc[p].name = uc[q].name)
          => uc[p].id = uc[q].id

====
